---- MODULE Spec2Model ----
(***************************************************************************)
(* Backup / sync engine of emulator-save-manager.                          *)
(*                                                                         *)
(* One (emulator, game) pair is modelled.  Every machine owns a local game *)
(* directory {backup_root}/{emulator}/{game_id}/ holding {ts}.zip archives *)
(* and {ts}.json sidecars; all machines share one sync root whose game     *)
(* directory holds one sub-directory per pushed archive.  Timestamps are   *)
(* minutes 1..MaxTime; the name "%Y-%m-%d_%H-%M" orders like the minute.   *)
(***************************************************************************)
EXTENDS Integers, Sequences, FiniteSets, TLC

\* ------------------------------------------------------------------------
\* Bounds
\* ------------------------------------------------------------------------
MaxTime == 3
MaxRetention == 2
MaxData == 2
MaxByte == 2
MaxLen == 1
MaxFiles == 2
MaxMtime == 2
MaxArtifacts == 2
MaxPayloadTime == 2
MaxSyncTime == 2
MaxCreates == 3

\* settings_page.py: RangeValidator(1, 50) -- the smallest retention count
MinRetention == 1

Machines == {"mA", "mB"}
Stamps == 1..MaxTime
Labels == {"", "boss"}

\* ------------------------------------------------------------------------
\* File-system nodes: a path is absent, a regular file or a directory.
\* A directory lists its regular files in sorted path order.
\* ------------------------------------------------------------------------
\* the member backup_info.json of an archive directory, when it has one
NoInfo == [present |-> FALSE, crc32 |-> "", source_machine |-> ""]

Info(crc, machine) == [present |-> TRUE, crc32 |-> crc, source_machine |-> machine]

\* readable: open(path, "rb") succeeds on the file, or on every file under
\* the directory
Absent ==
    [kind |-> "absent", bytes |-> <<>>, files |-> <<>>, mtime |-> 0, info |-> NoInfo,
     readable |-> TRUE]

File(b, t) ==
    [kind |-> "file", bytes |-> b, files |-> <<>>, mtime |-> t, info |-> NoInfo,
     readable |-> TRUE]

Dir(fs, t) ==
    [kind |-> "dir", bytes |-> <<>>, files |-> fs, mtime |-> t, info |-> NoInfo,
     readable |-> TRUE]

\* the same path when open fails on it with PermissionError
no_read(p) == [p EXCEPT !.readable = FALSE]

\* an archive directory as sync.py expects it: data files and backup_info.json
InfoDir(fs, t, crc, machine) == [Dir(fs, t) EXCEPT !.info = Info(crc, machine)]

exists(p) == p.kind # "absent"

is_dir(p) == p.kind = "dir"

RECURSIVE Concat(_)
Concat(ss) == IF ss = <<>> THEN <<>> ELSE Head(ss) \o Concat(Tail(ss))

Max2(a, b) == IF a >= b THEN a ELSE b

RECURSIVE MaxOf(_, _)
MaxOf(ts, default) ==
    IF ts = <<>> THEN default ELSE Max2(Head(ts), MaxOf(Tail(ts), Head(ts)))

\* hashlib.sha256(...).hexdigest(): an injective digest of the bytes fed in;
\* the empty string "" returned on failure is the empty sequence.
sha256(bytes) == <<"sha256", bytes>>

HashFailed == <<>>

\* conflict.py file_sha256: open(path, "rb") fails on a directory or a
\* missing path and the function returns "".
file_sha256(p) ==
    IF p.kind = "file" /\ p.readable THEN sha256(p.bytes) ELSE HashFailed

\* the bytes of backup_info.json, which sorts before the data files
CrcIdx(crc) ==
    CASE crc = "" -> 1
      [] crc = "AAAA" -> 2
      [] crc = "BBBB" -> 3

InfoBytes(info) == IF info.present THEN <<0 - CrcIdx(info.crc32)>> ELSE <<>>

\* conflict.py dir_sha256: feeds the bytes of every file under the directory,
\* in sorted order, to one digest.  Path.rglob on a regular file or a missing
\* path yields nothing, so the digest of no bytes is returned.  A file under
\* the directory that cannot be opened ends the loop: "" is returned.
dir_sha256(p) ==
    IF p.kind = "dir"
    THEN IF ~p.readable /\ (p.info.present \/ p.files # <<>>)
         THEN HashFailed
         ELSE sha256(InfoBytes(p.info) \o Concat([i \in 1..Len(p.files) |-> p.files[i].bytes]))
    ELSE sha256(<<>>)

\* max((f.stat().st_mtime for f in path.rglob("*") if f.is_file()), default=0)
rglob_mtime(p) ==
    IF p.kind = "dir"
    THEN MaxOf((IF p.info.present THEN <<p.mtime>> ELSE <<>>) \o
               [i \in 1..Len(p.files) |-> p.files[i].mtime], 0)
    ELSE 0

\* path.stat().st_mtime
stat_mtime(p) == p.mtime

\* ------------------------------------------------------------------------
\* ConflictDetector.detect
\* ------------------------------------------------------------------------
NoConflict ==
    [none |-> TRUE, local_path |-> Absent, remote_path |-> Absent,
     local_mtime |-> 0, remote_mtime |-> 0,
     local_hash |-> HashFailed, remote_hash |-> HashFailed,
     local_name |-> 0, remote_name |-> 0, remote_machine |-> ""]

ConflictInfo(lp, rp, lh, rh) ==
    [none |-> FALSE, local_path |-> lp, remote_path |-> rp,
     local_mtime |-> IF is_dir(lp) THEN rglob_mtime(lp) ELSE stat_mtime(lp),
     remote_mtime |-> IF is_dir(lp) THEN rglob_mtime(rp) ELSE stat_mtime(rp),
     local_hash |-> lh, remote_hash |-> rh,
     local_name |-> 0, remote_name |-> 0, remote_machine |-> ""]

\* the ConflictInfo of detect(local_path, remote_path, remote_machine=...)
\* called on the archive lname of the local tree and rname of the sync root
at_paths(c, lname, rname, machine) ==
    IF c.none THEN c
    ELSE [c EXCEPT !.local_name = lname, !.remote_name = rname,
                   !.remote_machine = machine]

is_real_conflict(c) == c.local_hash # c.remote_hash

detect_hashes(lp, rp) ==
    IF is_dir(lp)
    THEN <<dir_sha256(lp), dir_sha256(rp)>>
    ELSE <<file_sha256(lp), file_sha256(rp)>>

detect_no_equal_check(lp, rp) ==
    IF ~exists(lp) \/ ~exists(rp)
    THEN NoConflict
    ELSE ConflictInfo(lp, rp, detect_hashes(lp, rp)[1], detect_hashes(lp, rp)[2])

detect(lp, rp) ==
    IF ~exists(lp) \/ ~exists(rp)
    THEN NoConflict
    ELSE LET h == detect_hashes(lp, rp)
         IN  IF h[1] = h[2]
             THEN NoConflict
             ELSE ConflictInfo(lp, rp, h[1], h[2])

\* ConflictDetector.auto_resolve: the newer side wins, a tie is skipped
auto_resolve_non_strict(c) ==
    IF c.local_mtime >= c.remote_mtime THEN "use_local"
    ELSE IF c.remote_mtime > c.local_mtime THEN "use_remote"
    ELSE "skip"

auto_resolve(c) ==
    IF c.local_mtime > c.remote_mtime THEN "use_local"
    ELSE IF c.remote_mtime > c.local_mtime THEN "use_remote"
    ELSE "skip"

\* ------------------------------------------------------------------------
\* Input of create_backup: a list of GameSave, each with its save files.
\* A save file is a regular file with content `data`, a directory whose
\* child files have the contents `children`, or a path that is gone.
\* ------------------------------------------------------------------------
SaveTypeIdx(t) ==
    CASE t = "memcard" -> 1
      [] t = "battery" -> 2
      [] t = "savestate" -> 3
      [] t = "folder" -> 4
      [] t = "file" -> 5

\* path is where the save file is, name the last component of that path
SaveFileAt(path, n, k, type, d) ==
    [path |-> path, name |-> n, kind |-> k, save_type |-> type, data |-> d,
     children |-> IF k = "dir" THEN <<d>> ELSE <<>>]

SaveFile(n, k, d) == SaveFileAt(n, n, k, IF k = "dir" THEN "folder" ELSE "file", d)

\* the i-th save file of a game at content generation d
ArtifactOf(i, d) == SaveFile(i, IF i % 2 = 1 THEN "file" ELSE "dir", d)

GameSave(crc, n, d) ==
    [crc32 |-> crc, save_files |-> [i \in 1..n |-> ArtifactOf(i, d)]]

\* all save files of all records, in the order the two loops visit them
all_save_files(saves) == Concat([i \in 1..Len(saves) |-> saves[i].save_files])

\* first non-empty crc32 of the records, else the first record's
RECURSIVE first_crc32(_, _)
first_crc32(saves, ref) ==
    IF saves = <<>> THEN ref
    ELSE IF Head(saves).crc32 # "" THEN Head(saves).crc32
    ELSE first_crc32(Tail(saves), ref)

\* ------------------------------------------------------------------------
\* ZIP container and sidecar
\* ------------------------------------------------------------------------
\* entries zf.write adds for one save file: arc_name {type}/{name} for a
\* file, {type}/{dir_name}/{rel} for every child of a directory
zip_entries(sf) ==
    IF sf.kind = "dir"
    THEN [c \in 1..Len(sf.children) |->
            <<SaveTypeIdx(sf.save_type), sf.name, c, sf.children[c]>>]
    ELSE IF sf.kind = "file"
    THEN << <<SaveTypeIdx(sf.save_type), sf.name, 0, sf.data>> >>
    ELSE <<>>

\* bytes of the archive file; a ZIP without entries is not an empty file
ZipBytes(sfs) == <<0>> \o Concat(Concat([i \in 1..Len(sfs) |-> zip_entries(sfs[i])]))

backup_path_entry(sf) ==
    [source |-> sf.path,
     type |-> sf.save_type,
     zip_path |-> <<SaveTypeIdx(sf.save_type), sf.name>>,
     is_dir |-> sf.kind = "dir"]

\* backup_paths of the sidecar: one entry per save file that is a directory
\* or a regular file; a path that is neither is skipped
backup_paths_of(sfs) ==
    LET present == SelectSeq(sfs, LAMBDA sf : sf.kind \in {"dir", "file"})
    IN  [i \in 1..Len(present) |-> backup_path_entry(present[i])]

\* readable: json.load and BackupInfo.from_dict accept what the file holds
NoMeta ==
    [exists |-> FALSE, readable |-> FALSE, backup_paths |-> <<>>, is_pinned |-> FALSE,
     label |-> "", source_machine |-> "", crc32 |-> ""]

\* BackupInfo(...).to_dict(): is_pinned and label take their defaults
BackupInfo(bp, machine, crc) ==
    [exists |-> TRUE, readable |-> TRUE, backup_paths |-> bp, is_pinned |-> FALSE,
     label |-> "", source_machine |-> machine, crc32 |-> crc]

\* a sidecar whose content json.load rejects
Unreadable == [NoMeta EXCEPT !.exists = TRUE]

\* ------------------------------------------------------------------------
\* A machine's local game directory: {ts}.zip and {ts}.json per timestamp,
\* and what sync leaves there: the pulled directory {ts}, and the copies
\* {ts}_conflict_{machine}.zip and {ts}.zip_conflict_{machine} of keep_both
\* ------------------------------------------------------------------------
EmptyStore ==
    [zips |-> [ts \in Stamps |-> Absent], metas |-> [ts \in Stamps |-> NoMeta],
     dirs |-> [ts \in Stamps |-> Absent],
     alt_zips |-> [ts \in Stamps |-> Absent], alt_dirs |-> [ts \in Stamps |-> Absent]]

RECURSIVE SortDesc(_)
SortDesc(S) ==
    IF S = {} THEN <<>>
    ELSE LET m == CHOOSE x \in S : \A y \in S : y <= x
         IN  <<m>> \o SortDesc(S \ {m})

BackupRecord(ts, meta, v) ==
    [backup_path |-> ts, version |-> v, is_pinned |-> meta.is_pinned, label |-> meta.label]

\* BackupManager.list_backups: the *.zip paths newest first, those without a
\* sidecar skipped (no {ts}_conflict_{machine}.zip ever has one), those whose
\* sidecar cannot be read skipped with a warning, versions numbered from the
\* oldest = 1
list_backups_numbered_from_newest(store) ==
    LET zs == SortDesc({ts \in Stamps : exists(store.zips[ts])})
        listed == SelectSeq(zs, LAMBDA ts : store.metas[ts].exists /\ store.metas[ts].readable)
    IN  [i \in 1..Len(listed) |->
            BackupRecord(listed[i], store.metas[listed[i]], i)]

list_backups(store) ==
    LET zs == SortDesc({ts \in Stamps : exists(store.zips[ts])})
        listed == SelectSeq(zs, LAMBDA ts : store.metas[ts].exists /\ store.metas[ts].readable)
    IN  [i \in 1..Len(listed) |->
            BackupRecord(listed[i], store.metas[listed[i]], Len(listed) - i + 1)]

listed_stamps(store) == {list_backups(store)[i].backup_path : i \in 1..Len(list_backups(store))}

\* Path.unlink raises on a directory
delete_raises(store, ts) == is_dir(store.zips[ts])

\* BackupManager.delete_backup: unlink the zip, then the sidecar
delete_backup(store, ts) ==
    IF delete_raises(store, ts) THEN store
    ELSE [store EXCEPT !.zips[ts] = Absent, !.metas[ts] = NoMeta]

RECURSIVE delete_all(_, _)
delete_all(store, recs) ==
    IF recs = <<>> THEN store
    ELSE delete_all(delete_backup(store, Head(recs).backup_path), Tail(recs))

\* BackupManager.rotate_backups: delete the non-pinned records beyond the
\* first max_backups of the newest-first list
rotate_victims_counting_pinned(store, max_backups) ==
    LET records == list_backups(store)
    IN  IF Len(records) > max_backups
        THEN SubSeq(records, max_backups + 1, Len(records))
        ELSE <<>>

rotate_victims_off_by_one(store, max_backups) ==
    LET records == list_backups(store)
        non_pinned == SelectSeq(records, LAMBDA r : ~r.is_pinned)
    IN  IF Len(non_pinned) > max_backups + 1
        THEN SubSeq(non_pinned, max_backups + 2, Len(non_pinned))
        ELSE <<>>

rotate_victims(store, max_backups) ==
    LET records == list_backups(store)
        non_pinned == SelectSeq(records, LAMBDA r : ~r.is_pinned)
    IN  IF Len(non_pinned) > max_backups
        THEN SubSeq(non_pinned, max_backups + 1, Len(non_pinned))
        ELSE <<>>

rotate_backups(store, max_backups) ==
    [store |-> delete_all(store, rotate_victims(store, max_backups)),
     deleted |-> Len(SelectSeq(rotate_victims(store, max_backups),
                               LAMBDA r : ~delete_raises(store, r.backup_path))),
     \* except Exception: logger.error("Failed to delete backup ...")
     failed |-> Len(SelectSeq(rotate_victims(store, max_backups),
                              LAMBDA r : delete_raises(store, r.backup_path)))]

\* BackupManager._update_meta: no sidecar, no change; else data.update(kwargs)
pin_meta(meta, label) ==
    IF meta.exists /\ meta.readable
    THEN [meta EXCEPT !.is_pinned = TRUE, !.label = label] ELSE meta

unpin_meta(meta) ==
    IF meta.exists /\ meta.readable THEN [meta EXCEPT !.is_pinned = FALSE] ELSE meta

\* BackupManager.create_backup, the part that writes: the ZIP is opened with
\* mode "w" at {ts}.zip and the save files are added in order.  fail_at = 0:
\* every save file is added and the sidecar is written.  fail_at = k > 0:
\* adding the k-th save file raises; the ZIP holds the files before it and
\* the sidecar is not written.
write_zip(store, ts, sfs, fail_at) ==
    LET added == IF fail_at = 0 THEN sfs ELSE SubSeq(sfs, 1, fail_at - 1)
    IN  [store EXCEPT !.zips[ts] = File(ZipBytes(added), ts)]

write_meta(store, ts, sfs, machine, crc) ==
    [store EXCEPT !.metas[ts] = BackupInfo(backup_paths_of(sfs), machine, crc)]

\* ------------------------------------------------------------------------
\* Sync root: {sync_root}/{emulator}/{game_id}/{folder_name}/ per archive,
\* and the manifest entry of the game in sync_manifest.json
\* ------------------------------------------------------------------------
NoManifestEntry ==
    [has_entry |-> FALSE, last_sync_time |-> 0, source_machine |-> "",
     file_hash |-> HashFailed, relative_path |-> 0, crc32 |-> ""]

\* SyncManager._read_backup_crc32: crc32 of {path}/backup_info.json, "" when
\* that file does not exist, as under a .zip file
read_backup_crc32(p) ==
    IF p.kind = "dir" /\ p.info.present THEN p.info.crc32 ELSE ""

\* SyncManager._read_remote_machine
read_remote_machine(p) ==
    IF p.kind = "dir" /\ p.info.present THEN p.info.source_machine ELSE ""

\* str.lower() on the version tags of the model
crc_lower(crc) ==
    CASE crc = "" -> ""
      [] crc = "AAAA" -> "aaaa"
      [] crc = "BBBB" -> "bbbb"

\* SyncManager.check_crc32_mismatch
check_crc32_mismatch(man, local_crc32) ==
    LET remote_crc == IF man.has_entry THEN man.crc32 ELSE ""
    IN  IF remote_crc = "" \/ local_crc32 = ""
        THEN FALSE
        ELSE crc_lower(remote_crc) # crc_lower(local_crc32)

\* SyncManager._update_manifest
update_manifest(machine, backup_name, backup_dir, t) ==
    [has_entry |-> TRUE, last_sync_time |-> t, source_machine |-> machine,
     file_hash |-> dir_sha256(backup_dir), relative_path |-> backup_name,
     crc32 |-> read_backup_crc32(backup_dir)]

\* BackupRecord.folder_name: backup_time formatted back to the stamp
folder_name(rec) == rec.backup_path

SyncResult(rem, gd, man) ==
    [remote |-> rem, game_dir |-> gd, manifest |-> man, raised |-> FALSE,
     pushed |-> 0, pulled |-> 0, conflicts |-> <<>>, errors |-> <<>>,
     crc32_warnings |-> <<>>]

\* shutil.copytree(src, dst): os.scandir(src) raises for a regular file
\* before dst is created
copytree_ok(src) == src.kind = "dir"

\* SyncManager.push, the copy: rmtree of the destination, copytree, and the
\* manifest update once the copy is made
push_copy_manifest_first(store, machine, rem, man, t, latest, warns) ==
    LET name == folder_name(latest)
        src == store.zips[latest.backup_path]
        base == [SyncResult(rem, TRUE, man) EXCEPT
                    !.manifest = update_manifest(machine, name, src, t),
                    !.crc32_warnings = warns]
    IN  IF copytree_ok(src)
        THEN [base EXCEPT !.remote = [rem EXCEPT ![name] = src], !.pushed = 1]
        ELSE [base EXCEPT !.remote = [rem EXCEPT ![name] = Absent],
                          !.errors = <<"Push failed">>]

push_copy(store, machine, rem, man, t, latest, warns) ==
    LET name == folder_name(latest)
        src == store.zips[latest.backup_path]
        base == SyncResult(rem, TRUE, man)
    IN  IF copytree_ok(src)
        THEN [base EXCEPT !.remote = [rem EXCEPT ![name] = src],
                          !.pushed = 1,
                          !.manifest = update_manifest(machine, name, src, t),
                          !.crc32_warnings = warns]
        ELSE [base EXCEPT !.remote = [rem EXCEPT ![name] = Absent],
                          !.errors = <<"Push failed">>,
                          !.crc32_warnings = warns]

\* SyncManager.is_configured: bool(sf) and sf.exists().  An unset sync_folder
\* is Path(), which is true and names the working directory, which exists.
is_configured(c) == ~c.sync_folder_set \/ c.sync_configured

\* SyncManager.push for the game, on the machine's local store `store`
push_overwrite_on_conflict(store, machine, configured, rem, gd, man, t) ==
    IF ~configured
    THEN [SyncResult(rem, gd, man) EXCEPT !.errors = <<"Sync folder not configured">>]
    ELSE IF list_backups(store) = <<>>
    THEN SyncResult(rem, gd, man)
    ELSE LET latest == list_backups(store)[1]
         IN  IF rem[folder_name(latest)].kind = "file"
             THEN [SyncResult(rem, gd, man) EXCEPT !.raised = TRUE]
             ELSE push_copy(store, machine, rem, man, t, latest, <<>>)

push(store, machine, configured, rem, gd, man, t) ==
    IF ~configured
    THEN [SyncResult(rem, gd, man) EXCEPT !.errors = <<"Sync folder not configured">>]
    ELSE IF list_backups(store) = <<>>
    THEN SyncResult(rem, gd, man)
    ELSE LET latest == list_backups(store)[1]
             src == store.zips[latest.backup_path]
             local_crc == read_backup_crc32(src)
             warns == IF local_crc # "" /\ check_crc32_mismatch(man, local_crc)
                      THEN <<"crc32 mismatch">> ELSE <<>>
             dest == rem[folder_name(latest)]
         IN  IF dest.kind = "file"
             THEN \* dest_dir.mkdir(exist_ok=True) on a regular file raises
                  [SyncResult(rem, gd, man) EXCEPT !.raised = TRUE]
             ELSE IF dest.kind = "dir" /\ dest.files # <<>>
             THEN IF dir_sha256(src) = dir_sha256(dest)
                  THEN [SyncResult(rem, gd, man) EXCEPT !.crc32_warnings = warns]
                  ELSE LET conflict == at_paths(detect(src, dest), latest.backup_path,
                                                folder_name(latest), "")
                       IN  IF ~conflict.none /\ is_real_conflict(conflict)
                           THEN [SyncResult(rem, gd, man) EXCEPT
                                    !.conflicts = <<conflict>>,
                                    !.crc32_warnings = warns]
                           ELSE push_copy(store, machine, rem, man, t, latest, warns)
             ELSE push_copy(store, machine, rem, man, t, latest, warns)

\* push gets past its checks to the copy: there is an archive to push and
\* the destination directory is empty, or hashes differently and is no real
\* conflict
push_passes_check(store, configured, rem) ==
    /\ configured
    /\ list_backups(store) # <<>>
    /\ LET latest == list_backups(store)[1]
           src == store.zips[latest.backup_path]
           dest == rem[folder_name(latest)]
       IN  /\ dest.kind # "file"
           /\ (dest.kind = "dir" /\ dest.files # <<>>) =>
                 /\ dir_sha256(src) # dir_sha256(dest)
                 /\ LET conflict == detect(src, dest)
                    IN  ~(~conflict.none /\ is_real_conflict(conflict))

\* dest_dir.mkdir(parents=True, exist_ok=True)
mkdir(p, t) == IF exists(p) THEN p ELSE Dir(<<>>, t)

\* a push call between its check and its copy: the record it pushes, the
\* warnings it collected, whether another push of the same archive name was
\* between check and copy at the same time, and what it returned
Pushing(pc, latest, warns, raced) ==
    [pc |-> pc, latest |-> latest, warns |-> warns, raced |-> raced,
     pushed |-> 0, conflicts |-> 0,
     snapshot |-> <<NoManifestEntry, NoManifestEntry>>]

NoPush == [m \in Machines |-> Pushing("idle", BackupRecord(0, NoMeta, 0), <<>>, FALSE)]

\* ------------------------------------------------------------------------
\* SyncManager.pull, apply_resolution and sync_all
\* ------------------------------------------------------------------------
\* what pull returns and the local game directory it leaves
PullResult(store) ==
    [store |-> store, raised |-> FALSE, pushed |-> 0, pulled |-> 0,
     conflicts |-> <<>>, errors |-> <<>>, crc32_warnings |-> <<>>]

\* the directories of the remote game directory, by name
remote_backups(rem) == {n \in Stamps : rem[n].kind = "dir"}

\* the name that sorts last
latest_name(names) == CHOOSE n \in names : \A k \in names : k <= n

\* SyncManager.pull for the game, on the machine's local store `store`
pull(store, configured, rem, gd) ==
    IF ~configured
    THEN [PullResult(store) EXCEPT !.errors = <<"Sync folder not configured">>]
    ELSE IF ~gd \/ remote_backups(rem) = {}
    THEN PullResult(store)
    ELSE LET rname == latest_name(remote_backups(rem))
             latest_remote == rem[rname]
             remote_crc == read_backup_crc32(latest_remote)
             local_backups == list_backups(store)
             local_crc == IF local_backups = <<>> THEN ""
                          ELSE read_backup_crc32(store.zips[local_backups[1].backup_path])
             warns == IF /\ remote_crc # "" /\ local_crc # ""
                         /\ crc_lower(local_crc) # crc_lower(remote_crc)
                      THEN <<"crc32 mismatch">> ELSE <<>>
             copied == [PullResult([store EXCEPT !.dirs[rname] = latest_remote]) EXCEPT
                           !.pulled = 1, !.crc32_warnings = warns]
         IN  IF local_backups = <<>> THEN copied
             ELSE LET lname == local_backups[1].backup_path
                      latest_local == store.zips[lname]
                  IN  IF dir_sha256(latest_local) = dir_sha256(latest_remote)
                      THEN [PullResult(store) EXCEPT !.crc32_warnings = warns]
                      ELSE LET conflict == at_paths(detect(latest_local, latest_remote),
                                                    lname, rname,
                                                    read_remote_machine(latest_remote))
                           IN  IF ~conflict.none /\ is_real_conflict(conflict)
                               THEN [PullResult(store) EXCEPT
                                        !.conflicts = <<conflict>>,
                                        !.crc32_warnings = warns]
                               ELSE copied

\* shutil.copytree(src, dst, dirs_exist_ok=True) onto what dst holds: files of
\* the same name are overwritten, the others stay
merge_dirs(old, new) ==
    IF old.kind # "dir" THEN new
    ELSE [new EXCEPT
            !.files = [i \in 1..Max2(Len(old.files), Len(new.files)) |->
                          IF i <= Len(new.files) THEN new.files[i] ELSE old.files[i]],
            !.info = IF new.info.present THEN new.info ELSE old.info]

\* SyncManager.apply_resolution on the two paths the conflict names
apply_resolution(store, rem, c, resolution) ==
    LET lnode == store.zips[c.local_name]
        rnode == rem[c.remote_name]
        done(st, rm) == [store |-> st, remote |-> rm, errors |-> <<>>]
        failed(st, rm) == [store |-> st, remote |-> rm,
                           errors |-> <<"Failed to apply resolution">>]
    IN  CASE resolution = "use_local" ->
                \* the remote path is removed, then the local one copied over
                IF exists(lnode)
                THEN done(store, [rem EXCEPT ![c.remote_name] = lnode])
                ELSE failed(store, [rem EXCEPT ![c.remote_name] = Absent])
          [] resolution = "use_remote" ->
                IF exists(rnode)
                THEN done([store EXCEPT !.zips[c.local_name] = rnode], rem)
                ELSE failed([store EXCEPT !.zips[c.local_name] = Absent], rem)
          [] resolution = "keep_both" ->
                IF is_dir(lnode)
                THEN \* copytree(remote, {name}{suffix}, dirs_exist_ok=True)
                     IF is_dir(rnode)
                     THEN done([store EXCEPT !.alt_dirs[c.local_name] =
                                                merge_dirs(@, rnode)], rem)
                     ELSE failed(store, rem)
                ELSE \* copy2(remote, {stem}{suffix}.zip) raises on a directory
                     IF rnode.kind = "file"
                     THEN done([store EXCEPT !.alt_zips[c.local_name] = rnode], rem)
                     ELSE failed(store, rem)
          [] OTHER -> done(store, rem)

\* one game as sync_all meets it: the local game directory, the remote game
\* directory and the game's manifest entry
Game(store, rem, gd, man) ==
    [store |-> store, remote |-> rem, game_dir |-> gd, manifest |-> man]

\* the counts and lists of one per-game SyncResult
part_of(r) ==
    [pushed |-> r.pushed, pulled |-> r.pulled, conflicts |-> r.conflicts,
     errors |-> r.errors, crc32_warnings |-> r.crc32_warnings]

\* self.push(emu, gid) for one game of the loop
push_game(g, machine, t) ==
    push(g.store, machine, TRUE, g.remote, g.game_dir, g.manifest, t)

\* the loop state after the push of game i returned r, or raised
after_push(acc, i, r) ==
    [games |-> [acc.games EXCEPT ![i] = Game(@.store, r.remote, r.game_dir, r.manifest)],
     raised |-> r.raised,
     parts |-> IF r.raised THEN acc.parts ELSE Append(acc.parts, part_of(r))]

\* the push loop of sync_all over the games list_all_backups returns, in the
\* order given; a push that raises ends the loop and sync_all
RECURSIVE push_all(_, _, _, _)
push_all(order, machine, t, acc) ==
    IF order = <<>> \/ acc.raised THEN acc
    ELSE push_all(Tail(order), machine, t,
                  IF list_backups(acc.games[Head(order)].store) = <<>>
                  THEN acc
                  ELSE after_push(acc, Head(order),
                                  push_game(acc.games[Head(order)], machine, t)))

\* self.pull(emu, gid) for one game directory of the sync root
pull_game(g) == pull(g.store, TRUE, g.remote, g.game_dir)

\* the loop state after the pull of game i returned r
after_pull(acc, i, r) ==
    [games |-> [acc.games EXCEPT ![i].store = r.store],
     raised |-> r.raised,
     parts |-> Append(acc.parts, part_of(r))]

\* the pull loop of sync_all over the game directories of the sync root
RECURSIVE pull_all(_, _)
pull_all(order, acc) ==
    IF order = <<>> \/ acc.raised THEN acc
    ELSE pull_all(Tail(order),
                  IF ~acc.games[Head(order)].game_dir
                  THEN acc
                  ELSE after_pull(acc, Head(order), pull_game(acc.games[Head(order)])))

RECURSIVE sum_of(_, _)
sum_of(parts, field) ==
    IF parts = <<>> THEN 0 ELSE Head(parts)[field] + sum_of(Tail(parts), field)

RECURSIVE extend_of(_, _)
extend_of(parts, field) ==
    IF parts = <<>> THEN <<>> ELSE Head(parts)[field] \o extend_of(Tail(parts), field)

\* the SyncResult total of sync_all: the sums and the extended lists
total_of(all) ==
    [games |-> all.games, raised |-> all.raised, parts |-> all.parts,
     pushed |-> sum_of(all.parts, "pushed"),
     pulled |-> sum_of(all.parts, "pulled"),
     conflicts |-> extend_of(all.parts, "conflicts"),
     errors |-> extend_of(all.parts, "errors"),
     crc32_warnings |-> <<>>]

\* SyncManager.sync_all over the games, visited in the orders iterdir gives
sync_all(games, machine, configured, t, push_order, pull_order) ==
    IF ~configured
    THEN [games |-> games, raised |-> FALSE, parts |-> <<>>, pushed |-> 0,
          pulled |-> 0, conflicts |-> <<>>,
          errors |-> <<"Sync folder not configured">>, crc32_warnings |-> <<>>]
    ELSE total_of(pull_all(pull_order,
                           push_all(push_order, machine, t,
                                    [games |-> games, raised |-> FALSE, parts |-> <<>>])))

\* ------------------------------------------------------------------------
\* RestoreManager.restore_backup
\* ------------------------------------------------------------------------
\* zf.infolist(): the entries of the container, read back from its bytes
zip_infolist(bytes) ==
    [k \in 1..((Len(bytes) - 1) \div 4) |-> SubSeq(bytes, 4 * k - 2, 4 * k + 1)]

\* the entries under the prefix {type}/{dir_name}/ of a directory artifact
entries_under(bytes, zip_path) ==
    SelectSeq(zip_infolist(bytes),
              LAMBDA e : e[1] = zip_path[1] /\ e[2] = zip_path[2] /\ e[3] > 0)

\* the entry {type}/{name} of a single-file artifact, if the container has it
entries_named(bytes, zip_path) ==
    SelectSeq(zip_infolist(bytes),
              LAMBDA e : e[1] = zip_path[1] /\ e[2] = zip_path[2] /\ e[3] = 0)

\* zf.open(name): the entry the name stands for is the last one written
\* under it (NameToInfo keeps one entry per name)
last_named(bytes, zip_path) ==
    entries_named(bytes, zip_path)[Len(entries_named(bytes, zip_path))]

\* where an artifact goes back to: the path it was saved from
restore_target(bp) == bp.source

\* the entry that is written last to {destination}/{rel}
last_under(entries, rel) ==
    entries[CHOOSE i \in 1..Len(entries) :
                /\ entries[i][3] = rel
                /\ \A j \in (i + 1)..Len(entries) : entries[j][3] # rel]

\* the directory the entries of a directory artifact are written into, each
\* to {destination}/{rel} in the order of infolist
extracted_dir(entries, t) ==
    Dir([rel \in 1..MaxOf([i \in 1..Len(entries) |-> entries[i][3]], 0) |->
            [bytes |-> <<last_under(entries, rel)[4]>>, mtime |-> t]], t)

\* the body of the loop for one backup_paths entry; blocked holds the
\* destinations that cannot be created or written
restore_one(bytes, bp, fs, blocked, t) ==
    LET dst == restore_target(bp)
    IN  IF bp.is_dir
        THEN IF dst \in blocked
             THEN [live |-> fs, errors |-> <<"Error restoring">>]
             ELSE [live |-> [fs EXCEPT ![dst] =
                                merge_dirs(@, extracted_dir(entries_under(bytes, bp.zip_path), t))],
                   errors |-> <<>>]
        ELSE IF entries_named(bytes, bp.zip_path) = <<>> \/ dst \in blocked
             THEN [live |-> fs, errors |-> <<"Error restoring">>]
             ELSE [live |-> [fs EXCEPT ![dst] =
                                File(<<last_named(bytes, bp.zip_path)[4]>>, t)],
                   errors |-> <<>>]

RECURSIVE restore_each(_, _, _, _, _)
restore_each(bytes, bps, fs, blocked, t) ==
    IF bps = <<>> THEN [live |-> fs, errors |-> <<>>]
    ELSE LET one == restore_one(bytes, Head(bps), fs, blocked, t)
             more == restore_each(bytes, Tail(bps), one.live, blocked, t)
         IN  [live |-> more.live, errors |-> one.errors \o more.errors]

\* RestoreManager.restore_backup(record) for the archive ts of the store
restore_backup(store, ts, fs, blocked, t) ==
    IF ~exists(store.zips[ts])
    THEN [live |-> fs, errors |-> <<"Backup zip not found">>, raised |-> FALSE]
    ELSE IF ~store.metas[ts].exists
    THEN [live |-> fs, errors |-> <<"Backup metadata not found">>, raised |-> FALSE]
    ELSE IF is_dir(store.zips[ts])
    THEN \* zipfile.ZipFile(zip_path, "r") on a directory raises
         [live |-> fs, errors |-> <<>>, raised |-> TRUE]
    ELSE LET r == restore_each(store.zips[ts].bytes, store.metas[ts].backup_paths,
                               fs, blocked, t)
         IN  [live |-> r.live, errors |-> r.errors, raised |-> FALSE]

\* ------------------------------------------------------------------------
\* Path resolver: a path string is the sequence of its characters, a
\* placeholder token is one element of a portable string
\* ------------------------------------------------------------------------
MaxDepth == 2

\* str.lower() on the characters of the model
lower_char(c) == IF c = "D" THEN "d" ELSE c

lower(s) == [i \in 1..Len(s) |-> lower_char(s[i])]

\* str.startswith
startswith(s, prefix) ==
    /\ Len(prefix) <= Len(s)
    /\ SubSeq(s, 1, Len(prefix)) = prefix

\* str.lstrip("/")
RECURSIVE lstrip_slash(_)
lstrip_slash(s) ==
    IF s # <<>> /\ Head(s) = "/" THEN lstrip_slash(Tail(s)) ELSE s

\* real / rest of pathlib, rest relative
path_join(real, rest) == IF rest = <<>> THEN real ELSE real \o <<"/">> \o rest

\* entries.sort(key=len(str(path)), reverse=True): the longest path first,
\* entries of equal length in the order they were listed
RECURSIVE sort_longest_first(_)
sort_longest_first(entries) ==
    IF entries = <<>> THEN <<>>
    ELSE LET i == CHOOSE k \in 1..Len(entries) :
                    /\ \A j \in 1..Len(entries) : Len(entries[j][2]) <= Len(entries[k][2])
                    /\ \A j \in 1..(k - 1) : Len(entries[j][2]) < Len(entries[k][2])
         IN  <<entries[i]>> \o
             sort_longest_first(SubSeq(entries, 1, i - 1) \o SubSeq(entries, i + 1, Len(entries)))

placeholder_entries(rs) ==
    << <<"${DOCUMENTS}", rs.documents>>, <<"${APPDATA}", rs.appdata>>,
       <<"${LOCALAPPDATA}", rs.localappdata>>, <<"${HOME}", rs.home>> >>

placeholder_map(rs) == sort_longest_first(placeholder_entries(rs))

\* to_portable_path: the first entry whose real path is a case-insensitive
\* string prefix of the path gives the placeholder
RECURSIVE to_portable_in(_, _)
to_portable_in(entries, abs_str) ==
    IF entries = <<>> THEN abs_str
    ELSE IF startswith(lower(abs_str), lower(Head(entries)[2]))
    THEN LET rest == lstrip_slash(SubSeq(abs_str, Len(Head(entries)[2]) + 1, Len(abs_str)))
         IN  IF rest # <<>> THEN <<Head(entries)[1], "/">> \o rest
                            ELSE <<Head(entries)[1]>>
    ELSE to_portable_in(Tail(entries), abs_str)

to_portable_path(rs, absolute) == to_portable_in(placeholder_map(rs), absolute)

\* resolve_path: the first entry whose placeholder starts the string
RECURSIVE resolve_in(_, _)
resolve_in(entries, portable) ==
    IF entries = <<>> THEN portable
    ELSE IF portable # <<>> /\ Head(portable) = Head(entries)[1]
    THEN path_join(Head(entries)[2], lstrip_slash(Tail(portable)))
    ELSE resolve_in(Tail(entries), portable)

resolve_path(rs, portable) == resolve_in(placeholder_map(rs), portable)

\* ------------------------------------------------------------------------
\* State
\* ------------------------------------------------------------------------
VARIABLES
    now,              \* the wall clock, in minutes
    cfg,              \* Config: max_backups, whether sync_folder is set
                      \* and whether the directory it names exists
    local,            \* local[m]: the local game directory of machine m
    remote,           \* remote[name]: the archive directory in the sync root
    remote_game_dir,  \* whether {sync_root}/{emulator}/{game_id} exists
    manifest,         \* the game's entry of sync_manifest.json
    det_local,        \* operands of a direct ConflictDetector.detect call
    det_remote,
    created,          \* how many create_backup calls have returned so far
    last,             \* what the last operation returned
    roots,            \* the machine's real Documents/AppData/LocalAppData/Home paths
    path_arg,         \* the absolute path handed to to_portable_path
    other,            \* a second game of machine mA: its local and remote
                      \* game directories and its manifest entry
    live,             \* live[n]: the place the n-th save file is restored to
    pushing           \* pushing[m]: the push call machine m is inside, if any

vars == <<now, cfg, local, remote, remote_game_dir, manifest, det_local, det_remote, created, last, roots, path_arg, other, live, pushing>>

\* the state outside the backup tree and the sync root of the first game
env == <<roots, path_arg, other, live, pushing>>

NoResult ==
    [seq |-> 0, op |-> "none", machine |-> "", raised |-> FALSE,
     backup_path |-> 0, version |-> 0, deleted |-> 0,
     pushed |-> 0, pulled |-> 0, conflicts |-> <<>>, errors |-> <<>>,
     crc32_warnings |-> <<>>, detected |-> NoConflict,
     portable |-> <<>>, resolved |-> <<>>,
     resolution |-> "", parts |-> <<>>, blocked |-> {}, phase |-> 0,
     io_failures |-> 0, saved |-> <<>>]

\* the record of an operation; seq tells a repeated push from no call, and
\* phase counts the calls apply_resolution, push, pull made in a row by m
Result(op, m) ==
    [NoResult EXCEPT !.seq = IF op = "push" /\ last.op = "push" /\ last.machine = m
                             THEN 1 - last.seq ELSE 0,
                     !.phase = IF op = "apply_resolution" THEN 1
                               ELSE IF /\ op = "push" /\ last.machine = m
                                       /\ last.op = "apply_resolution"
                               THEN 2
                               ELSE IF /\ op = "pull" /\ last.machine = m
                                       /\ last.op = "push" /\ last.phase = 2
                               THEN 3
                               ELSE 0,
                     !.resolution = IF op \in {"push", "pull"} /\ last.machine = m
                                    THEN last.resolution ELSE "",
                     !.op = op, !.machine = m]

\* ------------------------------------------------------------------------
\* BackupManager.create_backup as a function of the store it finds
\* ------------------------------------------------------------------------
create_backup(store, saves, machine, ts, max_backups) ==
    LET sfs == all_save_files(saves)
        written == write_meta(write_zip(store, ts, sfs, 0), ts, sfs, machine,
                              first_crc32(saves, Head(saves).crc32))
        \* existing = self.list_backups(...) after the sidecar is written
        version == Len(list_backups(written)) + 1
        rotated == rotate_backups(written, max_backups)
    IN  [store |-> rotated.store, version |-> version, deleted |-> rotated.deleted,
         failed |-> rotated.failed]

\* ------------------------------------------------------------------------
\* Actions
\* ------------------------------------------------------------------------
\* a minute passes
Tick(limit) ==
    /\ now < limit
    /\ now' = now + 1
    /\ UNCHANGED <<cfg, local, remote, remote_game_dir, manifest, det_local, det_remote, created, last, env>>

\* datetime.now() is the local wall clock: it is set back (the end of
\* daylight saving time, a clock correction)
ClockBack(t) ==
    /\ t < now
    /\ now' = t
    /\ UNCHANGED <<cfg, local, remote, remote_game_dir, manifest, det_local, det_remote, created, last, env>>

\* create_backup(saves) returns a record, or raises: ValueError on no saves,
\* or zipfile.ZipFile(zip_path, "w") on a {ts}.zip that is a directory
CreateBackup(m, saves) ==
    /\ IF saves = <<>> \/ is_dir(local[m].zips[now])
       THEN /\ last' = [Result("create_backup", m) EXCEPT
                              !.raised = TRUE,
                              !.io_failures = IF saves = <<>> THEN 0 ELSE 1]
            /\ UNCHANGED <<local, created>>
       ELSE LET r == create_backup(local[m], saves, m, now, cfg.max_backups)
            IN  /\ local' = [local EXCEPT ![m] = r.store]
                /\ created' = IF created < MaxCreates THEN created + 1 ELSE created
                /\ last' = [Result("create_backup", m) EXCEPT
                              !.backup_path = now, !.version = r.version,
                              !.deleted = r.deleted, !.io_failures = r.failed,
                              !.saved = all_save_files(saves)]
    /\ UNCHANGED <<now, cfg, remote, remote_game_dir, manifest, det_local, det_remote, env>>

\* create_backup(saves) raises because adding the k-th save file failed
CreateBackupFails(m, saves, k) ==
    /\ saves # <<>>
    /\ ~is_dir(local[m].zips[now])
    /\ k \in 1..Len(all_save_files(saves))
    /\ local' = [local EXCEPT ![m] = write_zip(local[m], now, all_save_files(saves), k)]
    /\ last' = [Result("create_backup", m) EXCEPT
                  !.raised = TRUE, !.backup_path = now, !.io_failures = 1]
    /\ UNCHANGED <<now, cfg, remote, remote_game_dir, manifest, det_local, det_remote, created, env>>

\* pin_backup(record, label) on a record of the current list
PinBackup(m, ts, label) ==
    /\ ts \in listed_stamps(local[m])
    /\ local' = [local EXCEPT ![m].metas[ts] = pin_meta(@, label)]
    /\ last' = Result("pin_backup", m)
    /\ UNCHANGED <<now, cfg, remote, remote_game_dir, manifest, det_local, det_remote, created, env>>

\* pin_backup(record, label) when _update_meta cannot open the sidecar: the
\* except branch logs the failure and pin_backup returns None
PinBackupFails(m, ts, label) ==
    /\ ts \in listed_stamps(local[m])
    /\ last' = [Result("pin_backup", m) EXCEPT !.backup_path = ts, !.io_failures = 1]
    /\ UNCHANGED <<now, cfg, local, remote, remote_game_dir, manifest, det_local, det_remote, created, env>>

\* the sidecar {ts}.json of an archive is damaged by something else than the
\* program: what it holds is no JSON any more
CorruptSidecar(m, ts) ==
    /\ local[m].metas[ts].exists /\ local[m].metas[ts].readable
    /\ local' = [local EXCEPT ![m].metas[ts] = Unreadable]
    /\ UNCHANGED <<now, cfg, remote, remote_game_dir, manifest, det_local, det_remote, created, last, env>>

\* unpin_backup(record)
UnpinBackup(m, ts) ==
    /\ ts \in listed_stamps(local[m])
    /\ local' = [local EXCEPT ![m].metas[ts] = unpin_meta(@)]
    /\ last' = Result("unpin_backup", m)
    /\ UNCHANGED <<now, cfg, remote, remote_game_dir, manifest, det_local, det_remote, created, env>>

\* delete_backup(record)
DeleteBackup(m, ts) ==
    /\ ts \in listed_stamps(local[m])
    /\ local' = [local EXCEPT ![m] = delete_backup(@, ts)]
    /\ last' = [Result("delete_backup", m) EXCEPT
                  !.raised = delete_raises(local[m], ts),
                  !.io_failures = IF delete_raises(local[m], ts) THEN 1 ELSE 0]
    /\ UNCHANGED <<now, cfg, remote, remote_game_dir, manifest, det_local, det_remote, created, env>>

\* rotate_backups(emulator, game_id)
RotateBackups(m) ==
    /\ LET r == rotate_backups(local[m], cfg.max_backups)
       IN  /\ local' = [local EXCEPT ![m] = r.store]
           /\ last' = [Result("rotate_backups", m) EXCEPT
                         !.deleted = r.deleted, !.io_failures = r.failed]
    /\ UNCHANGED <<now, cfg, remote, remote_game_dir, manifest, det_local, det_remote, created, env>>

\* push(emulator, game_id) on machine m
Push(m) ==
    /\ LET r == push(local[m], m, is_configured(cfg), remote, remote_game_dir, manifest, now)
       IN  /\ remote' = r.remote
           /\ remote_game_dir' = r.game_dir
           /\ manifest' = r.manifest
           /\ last' = [Result("push", m) EXCEPT
                         !.raised = r.raised, !.pushed = r.pushed, !.pulled = r.pulled,
                         !.conflicts = r.conflicts, !.errors = r.errors,
                         !.crc32_warnings = r.crc32_warnings]
    /\ UNCHANGED <<now, cfg, local, det_local, det_remote, created, env>>

\* push(emulator, game_id) on machine m up to its copy: a call that returns
\* from its checks is over; one that passes them has made the destination
\* directory and has yet to copy
PushCheck(m) ==
    /\ pushing[m].pc = "idle"
    /\ IF ~push_passes_check(local[m], is_configured(cfg), remote)
       THEN /\ Push(m)
            /\ pushing' = pushing
       ELSE LET latest == list_backups(local[m])[1]
                name == folder_name(latest)
                local_crc == read_backup_crc32(local[m].zips[latest.backup_path])
                warns == IF local_crc # "" /\ check_crc32_mismatch(manifest, local_crc)
                         THEN <<"crc32 mismatch">> ELSE <<>>
                rivals == {o \in Machines \ {m} :
                              /\ pushing[o].pc = "checked"
                              /\ folder_name(pushing[o].latest) = name}
            IN  /\ remote' = [remote EXCEPT ![name] = mkdir(@, now)]
                /\ remote_game_dir' = TRUE
                /\ pushing' = [o \in Machines |->
                                  IF o = m
                                  THEN Pushing("checked", latest, warns, rivals # {})
                                  ELSE IF o \in rivals
                                  THEN [pushing[o] EXCEPT !.raced = TRUE]
                                  ELSE pushing[o]]
                /\ UNCHANGED <<now, cfg, local, manifest, det_local, det_remote,
                               created, last, roots, path_arg, other, live>>

\* the copy of a push that passed its checks: rmtree, copytree and the
\* manifest update, on what the sync root holds by now
PushWrite(m) ==
    /\ pushing[m].pc = "checked"
    /\ LET r == push_copy(local[m], m, remote, manifest, now, pushing[m].latest,
                          pushing[m].warns)
       IN  /\ remote' = r.remote
           /\ remote_game_dir' = r.game_dir
           /\ manifest' = r.manifest
           /\ last' = [Result("push", m) EXCEPT
                         !.pushed = r.pushed, !.errors = r.errors,
                         !.crc32_warnings = r.crc32_warnings,
                         !.backup_path = pushing[m].latest.backup_path]
           /\ pushing' = [pushing EXCEPT ![m] =
                             [@ EXCEPT !.pc = "idle", !.pushed = r.pushed]]
    /\ UNCHANGED <<now, cfg, local, det_local, det_remote, created, roots, path_arg,
                   other, live>>

\* the game a machine pushes when two machines push different games: mA the
\* first game, mB the second
game_index(m) == IF m = "mA" THEN 1 ELSE 2

game_of(m) ==
    IF m = "mA" THEN Game(local[m], remote, remote_game_dir, manifest) ELSE other

\* the directory of the machine's game in the sync root becomes rem
StoreGame(m, rem, gd) ==
    IF m = "mA"
    THEN remote' = rem /\ remote_game_dir' = gd /\ other' = other
    ELSE /\ other' = [other EXCEPT !.remote = rem, !.game_dir = gd]
         /\ UNCHANGED <<remote, remote_game_dir>>

\* push(emulator, game_id) of the machine's game up to the end of copytree: a
\* call that copies nothing returns; one that copied has yet to update the
\* manifest
PushCopied(m) ==
    /\ pushing[m].pc = "idle"
    /\ LET g == game_of(m)
           r == push(g.store, m, is_configured(cfg), g.remote, g.game_dir, g.manifest, now)
       IN  /\ StoreGame(m, r.remote, r.game_dir)
           /\ IF r.pushed = 0
              THEN /\ last' = [Result("push", m) EXCEPT
                                 !.raised = r.raised, !.conflicts = r.conflicts,
                                 !.errors = r.errors,
                                 !.crc32_warnings = r.crc32_warnings]
                   /\ pushing' = pushing
              ELSE /\ pushing' = [pushing EXCEPT ![m] =
                                     [@ EXCEPT !.pc = "copied",
                                               !.latest = list_backups(g.store)[1],
                                               !.warns = r.crc32_warnings]]
                   /\ last' = last
    /\ UNCHANGED <<now, cfg, local, manifest, det_local, det_remote, created,
                   roots, path_arg, live>>

\* _update_manifest: json.load of the manifest file of the sync root
ManifestRead(m) ==
    /\ pushing[m].pc = "copied"
    /\ pushing' = [pushing EXCEPT ![m] =
                      [@ EXCEPT !.pc = "read",
                                !.snapshot = <<manifest, other.manifest>>]]
    /\ UNCHANGED <<now, cfg, local, remote, remote_game_dir, manifest, det_local,
                   det_remote, created, last, roots, path_arg, other, live>>

\* the manifest file after json.dump of what was read, with the entry of
\* the pushed game set
written_manifest(m, snapshot, entry) == [snapshot EXCEPT ![game_index(m)] = entry]

\* _update_manifest: the entry of the pushed game is set in what was read
\* and the whole manifest is written; push returns pushed = 1
ManifestWrite(m) ==
    /\ pushing[m].pc = "read"
    /\ LET name == folder_name(pushing[m].latest)
           w == written_manifest(m, pushing[m].snapshot,
                                 update_manifest(m, name, game_of(m).remote[name], now))
       IN  /\ manifest' = w[1]
           /\ other' = [other EXCEPT !.manifest = w[2]]
    /\ last' = [Result("push", m) EXCEPT
                  !.pushed = 1, !.crc32_warnings = pushing[m].warns,
                  !.backup_path = pushing[m].latest.backup_path]
    /\ pushing' = [pushing EXCEPT ![m] = [@ EXCEPT !.pc = "idle", !.pushed = 1]]
    /\ UNCHANGED <<now, cfg, local, remote, remote_game_dir, det_local, det_remote,
                   created, roots, path_arg, live>>

\* ConflictDetector.detect(local_path, remote_path)
Detect ==
    /\ last' = [Result("detect", "") EXCEPT !.detected = detect(det_local, det_remote)]
    /\ UNCHANGED <<now, cfg, local, remote, remote_game_dir, manifest, det_local, det_remote, created, env>>

\* ConflictDetector.auto_resolve(conflict) on the conflict detect returned
AutoResolve ==
    /\ last.op = "detect" /\ ~last.detected.none
    /\ last' = [Result("auto_resolve", "") EXCEPT
                  !.detected = last.detected,
                  !.resolution = auto_resolve(last.detected)]
    /\ UNCHANGED <<now, cfg, local, remote, remote_game_dir, manifest, det_local, det_remote, created, env>>

\* pull(emulator, game_id) on machine m
Pull(m) ==
    /\ LET r == pull(local[m], is_configured(cfg), remote, remote_game_dir)
       IN  /\ local' = [local EXCEPT ![m] = r.store]
           /\ last' = [Result("pull", m) EXCEPT
                         !.raised = r.raised, !.pushed = r.pushed, !.pulled = r.pulled,
                         !.conflicts = r.conflicts, !.errors = r.errors,
                         !.crc32_warnings = r.crc32_warnings]
    /\ UNCHANGED <<now, cfg, remote, remote_game_dir, manifest, det_local, det_remote, created, env>>

\* apply_resolution(conflict, resolution) on the conflict the last push or
\* pull of machine m returned
ApplyResolution(m, resolution) ==
    /\ last.op \in {"push", "pull"} /\ last.machine = m
    /\ last.conflicts # <<>>
    /\ LET r == apply_resolution(local[m], remote, last.conflicts[1], resolution)
       IN  /\ local' = [local EXCEPT ![m] = r.store]
           /\ remote' = r.remote
           /\ last' = [Result("apply_resolution", m) EXCEPT
                         !.errors = r.errors, !.resolution = resolution,
                         !.detected = last.conflicts[1]]
    /\ UNCHANGED <<now, cfg, remote_game_dir, manifest, det_local, det_remote, created, env>>

\* create_backup(saves) for the second game
CreateBackupOther(m, saves) ==
    /\ saves # <<>>
    /\ ~is_dir(other.store.zips[now])
    /\ LET r == create_backup(other.store, saves, m, now, cfg.max_backups)
       IN  /\ other' = [other EXCEPT !.store = r.store]
           /\ last' = [Result("create_backup_other", m) EXCEPT
                         !.backup_path = now, !.version = r.version,
                         !.deleted = r.deleted]
    /\ UNCHANGED <<now, cfg, local, remote, remote_game_dir, manifest, det_local, det_remote, created, roots, path_arg, live, pushing>>

\* what the caller of sync_all gets: the total, or the exception
sync_all_result(m, r) ==
    IF r.raised
    THEN [Result("sync_all", m) EXCEPT !.raised = TRUE, !.parts = r.parts]
    ELSE [Result("sync_all", m) EXCEPT
             !.parts = r.parts, !.pushed = r.pushed, !.pulled = r.pulled,
             !.conflicts = r.conflicts, !.errors = r.errors,
             !.crc32_warnings = r.crc32_warnings]

\* the files of the two games after sync_all
AfterSyncAll(m, r) ==
    /\ local' = [local EXCEPT ![m] = r.games[1].store]
    /\ remote' = r.games[1].remote
    /\ remote_game_dir' = r.games[1].game_dir
    /\ manifest' = r.games[1].manifest
    /\ other' = r.games[2]
    /\ last' = sync_all_result(m, r)

\* sync_all() on machine m; iterdir gives the games in some order
SyncAll(m, push_order, pull_order) ==
    /\ AfterSyncAll(m, sync_all(<<Game(local[m], remote, remote_game_dir, manifest), other>>,
                                m, is_configured(cfg), now, push_order, pull_order))
    /\ UNCHANGED <<now, cfg, det_local, det_remote, created, roots, path_arg, live, pushing>>

\* restore_backup(record) of a listed archive; the destinations in blocked
\* cannot be written
RestoreBackup(m, ts, blocked) ==
    /\ ts \in listed_stamps(local[m])
    /\ LET r == restore_backup(local[m], ts, live, blocked, now)
       IN  /\ live' = r.live
           /\ last' = [Result("restore_backup", m) EXCEPT
                         !.raised = r.raised, !.errors = r.errors,
                         !.backup_path = ts, !.blocked = blocked]
    /\ UNCHANGED <<now, cfg, local, remote, remote_game_dir, manifest, det_local, det_remote, created, roots, path_arg, other, pushing>>

\* the destination as restore_backup finds it (mkdir(exist_ok=True)): the
\* emulator has written n files into the save directory p since
EmulatorWrites(p, n, d) ==
    /\ p % 2 = 0
    /\ live' = [live EXCEPT ![p] = Dir([i \in 1..n |-> [bytes |-> <<d>>, mtime |-> now]], now)]
    /\ UNCHANGED <<now, cfg, local, remote, remote_game_dir, manifest, det_local, det_remote, created, last, roots, path_arg, other, pushing>>

\* to_portable_path(absolute)
ToPortablePath ==
    /\ last' = [Result("to_portable_path", "") EXCEPT
                  !.portable = to_portable_path(roots, path_arg)]
    /\ UNCHANGED <<now, cfg, local, remote, remote_game_dir, manifest, det_local, det_remote, created, env>>

\* resolve_path(portable) on the string to_portable_path returned
ResolvePath ==
    /\ last.op = "to_portable_path"
    /\ last' = [Result("resolve_path", "") EXCEPT
                  !.portable = last.portable,
                  !.resolved = resolve_path(roots, last.portable)]
    /\ UNCHANGED <<now, cfg, local, remote, remote_game_dir, manifest, det_local, det_remote, created, env>>

\* ------------------------------------------------------------------------
\* Inputs
\* ------------------------------------------------------------------------
Bytes == UNION {[1..n -> 1..MaxByte] : n \in 0..MaxLen}

DirFiles == [bytes : Bytes, mtime : 1..MaxMtime]

FileNodes == {File(b, t) : b \in Bytes, t \in 1..MaxMtime}

DirNodes ==
    {Dir(fs, t) : fs \in UNION {[1..n -> DirFiles] : n \in 0..MaxFiles}, t \in 1..MaxMtime}

PathNodes == {Absent} \cup FileNodes \cup DirNodes

\* the paths auto_resolve is tried on: files, and directories of one file
AutoNodes ==
    FileNodes \cup
    {Dir(fs, t) : fs \in UNION {[1..n -> DirFiles] : n \in 0..1}, t \in 1..MaxMtime}

\* one game with two save files at the paths 1 and 2: every file or
\* directory name, kind, save type and content for each
RoundTripArtifacts(path) ==
    {SaveFileAt(path, n, k, type, d) :
        n \in 1..MaxArtifacts, k \in {"file", "dir"},
        type \in {"memcard", "file"}, d \in 1..MaxData}

RoundTripInputs ==
    { <<[crc32 |-> "", save_files |-> <<a, b>>]>> :
        a \in RoundTripArtifacts(1), b \in RoundTripArtifacts(2) }

\* the paths detect is tried on when files cannot be read
UnreadNodes == AutoNodes \cup {no_read(p) : p \in AutoNodes}

\* archive directories another writer may have left in the sync root
SeedDirs ==
    {Dir(fs, 1) : fs \in UNION {[1..n -> [bytes : Bytes, mtime : {1}]] : n \in 0..1}}

\* the saves of one game: n save files at content generation d
SaveInputs ==
    { <<GameSave("", n, d)>> : n \in 1..MaxArtifacts, d \in 1..MaxData }

OneFileInputs == { <<GameSave("", 1, d)>> : d \in 1..MaxData }

SameInputs == { <<GameSave("", 1, 1)>> }

\* real paths a known folder may have: the home directory, folders below
\* it, one of them named like the start of another, and a relocated folder
RootPaths ==
    { <<"/", "h">>, <<"/", "h", "/", "d">>, <<"/", "h", "/", "d", "x">>, <<"/", "d">> }

HomePath == <<"/", "h">>

KnownRoots ==
    [documents : RootPaths, appdata : RootPaths, localappdata : RootPaths, home : {HomePath}]

\* path components and the relative suffixes of up to MaxDepth components
Components == { <<"d">>, <<"d", "x">>, <<"x">>, <<"D">> }

RECURSIVE join_components(_)
join_components(cs) ==
    IF cs = <<>> THEN <<>>
    ELSE IF Len(cs) = 1 THEN Head(cs)
    ELSE Head(cs) \o <<"/">> \o join_components(Tail(cs))

Suffixes == { join_components(cs) : cs \in UNION {[1..n -> Components] : n \in 0..MaxDepth} }

\* archive directories, with backup_info.json, that another machine pushed
InfoSeeds ==
    {InfoDir(<<[bytes |-> <<1>>, mtime |-> 1]>>, 1, crc, "mX") : crc \in {"AAAA", "BBBB"}}

Resolutions == {"use_local", "use_remote", "keep_both"}

Orders == {<<1, 2>>, <<2, 1>>}

\* a game with no local archive and nothing in the sync root
NoGame == Game(EmptyStore, [n \in Stamps |-> Absent], FALSE, NoManifestEntry)

\* no save file is in its place
NoLive == [n \in 1..MaxArtifacts |-> Absent]

\* archive directories in the sync root: data files alone, or with
\* backup_info.json
ResolveSeeds ==
    {Dir(<<[bytes |-> <<1>>, mtime |-> t]>>, t) : t \in 1..MaxMtime} \cup
    {InfoDir(<<[bytes |-> <<1>>, mtime |-> 1]>>, 1, "AAAA", "mX")}

NoRoots == [documents |-> HomePath, appdata |-> HomePath, localappdata |-> HomePath, home |-> HomePath]

\* ------------------------------------------------------------------------
\* Specifications
\* ------------------------------------------------------------------------
InitCommon ==
    /\ now = 1
    /\ local = [m \in Machines |-> EmptyStore]
    /\ manifest = NoManifestEntry
    /\ last = NoResult
    /\ created = 0
    /\ det_local = Absent
    /\ det_remote = Absent
    /\ roots = NoRoots
    /\ path_arg = HomePath
    /\ other = NoGame
    /\ live = NoLive
    /\ pushing = NoPush

InitLocal ==
    /\ InitCommon
    /\ cfg \in [max_backups : MinRetention..MaxRetention, sync_folder_set : {TRUE},
                sync_configured : {FALSE}]
    /\ remote = [n \in Stamps |-> Absent]
    /\ remote_game_dir = FALSE

\* retention: the archive list of one machine over MaxTime minutes
Init == InitLocal

Next ==
    \/ Tick(MaxTime)
    \/ \E saves \in SameInputs \cup {<<>>} : CreateBackup("mA", saves)
    \/ \E ts \in Stamps, label \in Labels : PinBackup("mA", ts, label)
    \/ \E ts \in Stamps : UnpinBackup("mA", ts)
    \/ \E ts \in Stamps : DeleteBackup("mA", ts)
    \/ RotateBackups("mA")

Spec == Init /\ [][Next]_vars

\* payload: what the archives of one machine hold, with failing creates
InitPayload == InitLocal

NextPayload ==
    \/ Tick(MaxPayloadTime)
    \/ \E saves \in SaveInputs : CreateBackup("mA", saves)
    \/ \E saves \in SaveInputs, k \in 1..MaxArtifacts : CreateBackupFails("mA", saves, k)
    \/ \E ts \in Stamps, label \in Labels : PinBackup("mA", ts, label)
    \/ \E ts \in Stamps : UnpinBackup("mA", ts)
    \/ \E ts \in Stamps : DeleteBackup("mA", ts)
    \/ RotateBackups("mA")

SpecPayload == InitPayload /\ [][NextPayload]_vars

\* creates: nothing but create_backup calls on one machine
InitCreate == InitLocal

NextCreate ==
    \/ Tick(MaxTime)
    \/ \E saves \in OneFileInputs : CreateBackup("mA", saves)

SpecCreate == InitCreate /\ [][NextCreate]_vars

\* sync: two machines and the sync root they share
InitSync ==
    /\ InitCommon
    /\ cfg = [max_backups |-> MaxRetention, sync_folder_set |-> TRUE,
              sync_configured |-> TRUE]
    /\ \/ remote = [n \in Stamps |-> Absent] /\ remote_game_dir = FALSE
       \/ \E n \in 1..MaxSyncTime, d \in SeedDirs :
             /\ remote = [[x \in Stamps |-> Absent] EXCEPT ![n] = d]
             /\ remote_game_dir = TRUE

NextSync ==
    \/ Tick(MaxSyncTime)
    \/ \E m \in Machines, saves \in OneFileInputs : CreateBackup(m, saves)
    \/ \E m \in Machines : Push(m)

SpecSync == InitSync /\ [][NextSync]_vars

\* detect: ConflictDetector.detect on every pair of paths
InitDetect ==
    /\ now = 1
    /\ local = [m \in Machines |-> EmptyStore]
    /\ manifest = NoManifestEntry
    /\ last = NoResult
    /\ created = 0
    /\ cfg = [max_backups |-> MinRetention, sync_folder_set |-> TRUE,
              sync_configured |-> FALSE]
    /\ remote = [n \in Stamps |-> Absent]
    /\ remote_game_dir = FALSE
    /\ det_local \in PathNodes
    /\ det_remote \in PathNodes
    /\ roots = NoRoots
    /\ path_arg = HomePath
    /\ other = NoGame
    /\ live = NoLive
    /\ pushing = NoPush

NextDetect == Detect

SpecDetect == InitDetect /\ [][NextDetect]_vars

\* auto_resolve: detect on a pair of paths, then auto_resolve on its conflict
InitAuto ==
    /\ now = 1
    /\ local = [m \in Machines |-> EmptyStore]
    /\ manifest = NoManifestEntry
    /\ last = NoResult
    /\ created = 0
    /\ cfg = [max_backups |-> MinRetention, sync_folder_set |-> TRUE,
              sync_configured |-> FALSE]
    /\ remote = [n \in Stamps |-> Absent]
    /\ remote_game_dir = FALSE
    /\ det_local \in AutoNodes
    /\ det_remote \in AutoNodes
    /\ roots = NoRoots
    /\ path_arg = HomePath
    /\ other = NoGame
    /\ live = NoLive
    /\ pushing = NoPush

NextAuto ==
    \/ Detect
    \/ AutoResolve

SpecAuto == InitAuto /\ [][NextAuto]_vars

\* the sync root of a game another machine pushed the archive d to
SeedRemote(d) == [n \in Stamps |-> IF n = MaxSyncTime THEN d ELSE Absent]

\* the local archives of a game after create_backup, pull, which reports a
\* conflict with the archive in the sync root, and apply_resolution(conflict,
\* USE_REMOTE): the archive is a directory
resolved_store(st, rem, r) ==
    IF r.conflicts = <<>> THEN st
    ELSE apply_resolution(st, rem, r.conflicts[1], "use_remote").store

\* the local archives of a game: one archive create_backup wrote, as it is or
\* after the conflict with the sync root was resolved
GameStores(m) ==
    UNION { LET st == create_backup(EmptyStore, saves, m, 1, MaxRetention).store
            IN  {st} \cup {resolved_store(st, SeedRemote(d), pull(st, TRUE, SeedRemote(d), TRUE)) :
                              d \in ResolveSeeds} :
            saves \in OneFileInputs }

\* manifest: machine mA pushes the first game and machine mB the second at
\* the same time, each updating the one manifest file of the sync root in
\* two steps, its read and its write
InitManifest ==
    /\ now = 1
    /\ manifest = NoManifestEntry
    /\ last = NoResult
    /\ created = 0
    /\ det_local = Absent
    /\ det_remote = Absent
    /\ roots = NoRoots
    /\ path_arg = HomePath
    /\ live = NoLive
    /\ pushing = NoPush
    /\ cfg = [max_backups |-> MaxRetention, sync_folder_set |-> TRUE,
              sync_configured |-> TRUE]
    /\ remote = [n \in Stamps |-> Absent]
    /\ remote_game_dir = FALSE
    /\ \E stA \in GameStores("mA"), stB \in GameStores("mB") :
          /\ local = [m \in Machines |-> IF m = "mA" THEN stA ELSE EmptyStore]
          /\ other = Game(stB, [n \in Stamps |-> Absent], FALSE, NoManifestEntry)

NextManifest ==
    \/ Tick(MaxSyncTime)
    \/ \E m \in Machines : PushCopied(m)
    \/ \E m \in Machines : ManifestRead(m)
    \/ \E m \in Machines : ManifestWrite(m)

SpecManifest == InitManifest /\ [][NextManifest]_vars

\* wall clock: create_backup and pins on one machine whose clock also goes back
NextClock ==
    \/ Tick(MaxTime)
    \/ \E t \in Stamps : ClockBack(t)
    \/ \E saves \in SameInputs : CreateBackup("mA", saves)
    \/ \E ts \in Stamps : PinBackup("mA", ts, "")
    \/ \E ts \in Stamps : UnpinBackup("mA", ts)

SpecClock == InitLocal /\ [][NextClock]_vars

\* destination: archives of one machine restored over save directories the
\* emulator went on writing to
NextDestination ==
    \/ \E saves \in SaveInputs : CreateBackup("mA", saves)
    \/ \E p \in 1..MaxArtifacts, n \in 1..MaxFiles, d \in 1..MaxData : EmulatorWrites(p, n, d)
    \/ \E ts \in Stamps : RestoreBackup("mA", ts, {})

SpecDestination == InitLocal /\ [][NextDestination]_vars

\* round trip: one create_backup of two save files, the live files removed,
\* and restore_backup of the archive
NextRoundTrip ==
    \/ \E saves \in RoundTripInputs : created = 0 /\ CreateBackup("mA", saves)
    \/ \E ts \in Stamps : RestoreBackup("mA", ts, {})

SpecRoundTrip == InitLocal /\ [][NextRoundTrip]_vars

\* unreadable: detect on pairs of paths some of which cannot be read
InitUnread ==
    /\ now = 1
    /\ local = [m \in Machines |-> EmptyStore]
    /\ manifest = NoManifestEntry
    /\ last = NoResult
    /\ created = 0
    /\ cfg = [max_backups |-> MinRetention, sync_folder_set |-> TRUE,
              sync_configured |-> FALSE]
    /\ remote = [n \in Stamps |-> Absent]
    /\ remote_game_dir = FALSE
    /\ det_local \in UnreadNodes
    /\ det_remote \in UnreadNodes
    /\ roots = NoRoots
    /\ path_arg = HomePath
    /\ other = NoGame
    /\ live = NoLive
    /\ pushing = NoPush

NextUnread == Detect

SpecUnread == InitUnread /\ [][NextUnread]_vars

\* sync_all: machine mA, two games, and archive directories other machines
\* pushed to the sync root, within one minute
InitSyncAll ==
    /\ now = 1
    /\ local = [m \in Machines |-> EmptyStore]
    /\ manifest = NoManifestEntry
    /\ last = NoResult
    /\ created = 0
    /\ det_local = Absent
    /\ det_remote = Absent
    /\ roots = NoRoots
    /\ path_arg = HomePath
    /\ live = NoLive
    /\ pushing = NoPush
    /\ cfg = [max_backups |-> MaxRetention, sync_folder_set |-> TRUE,
              sync_configured |-> TRUE]
    /\ \E seeds \in [1..MaxSyncTime -> {Absent} \cup InfoSeeds] :
          /\ remote = [n \in Stamps |-> IF n <= MaxSyncTime THEN seeds[n] ELSE Absent]
          /\ remote_game_dir = (\E n \in 1..MaxSyncTime : seeds[n] # Absent)
    /\ \/ other = NoGame
       \/ other = Game(EmptyStore,
                       [n \in Stamps |-> IF n = 1
                                         THEN InfoDir(<<[bytes |-> <<1>>, mtime |-> 1]>>,
                                                      1, "AAAA", "mX")
                                         ELSE Absent],
                       TRUE, NoManifestEntry)

NextSyncAll ==
    \/ \E saves \in SameInputs : CreateBackup("mA", saves)
    \/ \E saves \in SameInputs : CreateBackupOther("mA", saves)
    \/ Push("mA")
    \/ \E resolution \in Resolutions : ApplyResolution("mA", resolution)
    \/ \E order \in Orders : SyncAll("mA", order, order)

SpecSyncAll == InitSyncAll /\ [][NextSyncAll]_vars

\* restore: archives of one machine, made within one minute, written back
InitRestore == InitLocal

NextRestore ==
    \/ \E saves \in SaveInputs : CreateBackup("mA", saves)
    \/ \E saves \in SaveInputs, k \in 1..MaxArtifacts : CreateBackupFails("mA", saves, k)
    \/ \E ts \in Stamps, blocked \in SUBSET (1..MaxArtifacts) : RestoreBackup("mA", ts, blocked)

SpecRestore == InitRestore /\ [][NextRestore]_vars

\* listing: the archive list of one machine, with containers that lost their
\* sidecar or whose sidecar was damaged
NextList ==
    \/ Tick(MaxTime)
    \/ \E saves \in SameInputs : CreateBackup("mA", saves)
    \/ \E saves \in SameInputs : CreateBackupFails("mA", saves, 1)
    \/ \E ts \in Stamps : PinBackup("mA", ts, "")
    \/ \E ts \in Stamps : UnpinBackup("mA", ts)
    \/ \E ts \in Stamps : DeleteBackup("mA", ts)
    \/ RotateBackups("mA")
    \/ \E ts \in Stamps : CorruptSidecar("mA", ts)

SpecList == InitLocal /\ [][NextList]_vars

\* race: two machines that push the game at the same time, each push in two
\* steps, its checks and its copy
NextRace ==
    \/ Tick(MaxSyncTime)
    \/ \E m \in Machines, saves \in OneFileInputs : CreateBackup(m, saves)
    \/ \E m \in Machines : PushCheck(m)
    \/ \E m \in Machines : PushWrite(m)

SpecRace == InitSync /\ [][NextRace]_vars

\* faults: the archive list of one machine, with I/O failures
InitFaults == InitLocal

NextFaults ==
    \/ Tick(MaxTime)
    \/ \E saves \in SameInputs : CreateBackup("mA", saves)
    \/ \E saves \in SameInputs : CreateBackupFails("mA", saves, 1)
    \/ \E ts \in Stamps, label \in Labels : PinBackup("mA", ts, label)
    \/ \E ts \in Stamps, label \in Labels : PinBackupFails("mA", ts, label)
    \/ \E ts \in Stamps : UnpinBackup("mA", ts)
    \/ \E ts \in Stamps : DeleteBackup("mA", ts)

SpecFaults == InitFaults /\ [][NextFaults]_vars

\* configuration: sync_folder unset (the default ""), set to a folder that
\* does not exist, or set to one that does
InitConfig ==
    /\ InitCommon
    /\ cfg \in {c \in [max_backups : {MaxRetention}, sync_folder_set : BOOLEAN,
                        sync_configured : BOOLEAN] :
                   c.sync_configured => c.sync_folder_set}
    /\ \E seed \in {Absent} \cup ResolveSeeds :
          /\ cfg.sync_folder_set /\ ~cfg.sync_configured => seed = Absent
          /\ remote = [n \in Stamps |-> IF n = 1 THEN seed ELSE Absent]
          /\ remote_game_dir = (seed # Absent)

NextConfig ==
    \/ Tick(MaxSyncTime)
    \/ \E saves \in SameInputs : CreateBackup("mA", saves)
    \/ Push("mA")
    \/ Pull("mA")
    \/ \E order \in Orders : SyncAll("mA", order, order)

SpecConfig == InitConfig /\ [][NextConfig]_vars

\* resolution: machine mA, the sync root other machines pushed to, and the
\* conflicts push and pull report, resolved
InitResolve ==
    /\ InitCommon
    /\ cfg = [max_backups |-> MaxRetention, sync_folder_set |-> TRUE,
              sync_configured |-> TRUE]
    /\ \E seeds \in [1..MaxSyncTime -> {Absent} \cup ResolveSeeds] :
          /\ remote = [n \in Stamps |-> IF n <= MaxSyncTime THEN seeds[n] ELSE Absent]
          /\ remote_game_dir = (\E n \in 1..MaxSyncTime : seeds[n] # Absent)

NextResolve ==
    \/ Tick(MaxSyncTime)
    \/ \E saves \in SameInputs : CreateBackup("mA", saves)
    \/ Push("mA")
    \/ Pull("mA")
    \/ \E resolution \in Resolutions : ApplyResolution("mA", resolution)

SpecResolve == InitResolve /\ [][NextResolve]_vars

\* paths: to_portable_path and resolve_path on R/S for every known root R
InitPath ==
    /\ now = 1
    /\ local = [m \in Machines |-> EmptyStore]
    /\ manifest = NoManifestEntry
    /\ last = NoResult
    /\ created = 0
    /\ cfg = [max_backups |-> MinRetention, sync_folder_set |-> TRUE,
              sync_configured |-> FALSE]
    /\ remote = [n \in Stamps |-> Absent]
    /\ remote_game_dir = FALSE
    /\ det_local = Absent
    /\ det_remote = Absent
    /\ other = NoGame
    /\ live = NoLive
    /\ pushing = NoPush
    /\ roots \in KnownRoots
    /\ \E R \in {roots.documents, roots.appdata, roots.localappdata, roots.home},
          S \in Suffixes : path_arg = path_join(R, S)

NextPath ==
    \/ ToPortablePath
    \/ ResolvePath

SpecPath == InitPath /\ [][NextPath]_vars

\* ------------------------------------------------------------------------
\* Properties
\* ------------------------------------------------------------------------
Min2(a, b) == IF a <= b THEN a ELSE b

non_pinned_stamps(store) ==
    {ts \in listed_stamps(store) : ~store.metas[ts].is_pinned}

pinned_stamps(store) ==
    {ts \in listed_stamps(store) : store.metas[ts].is_pinned}

\* the step is a push call of machine m
PushStep(m) == last' # last /\ last'.op = "push" /\ last'.machine = m

\* the step is a create_backup call of machine m that returned
CreateReturns(m) ==
    /\ now' = now
    /\ local' # local \/ last' # last \/ created' # created
    /\ last'.op = "create_backup" /\ last'.machine = m /\ ~last'.raised

\* the step is a create_backup call of machine m that raised
CreateRaises(m) ==
    /\ now' = now
    /\ local' # local \/ last' # last
    /\ last'.op = "create_backup" /\ last'.machine = m /\ last'.raised

\* the step is a direct rotate_backups call of machine m
RotateStep(m) ==
    /\ now' = now
    /\ local' # local \/ last' # last
    /\ last'.op = "rotate_backups" /\ last'.machine = m

\* C1: when create_backup has returned, the game's list holds at most
\* max_backups archives that are not pinned.
C1_RetentionBound ==
    \A m \in Machines :
        (last.op = "create_backup" /\ last.machine = m /\ ~last.raised)
            => Cardinality(non_pinned_stamps(local[m])) <= cfg.max_backups

\* a create_backup whose rotation deleted archives and left exactly the limit
C1_Witness ==
    /\ last.op = "create_backup" /\ ~last.raised /\ last.deleted > 0
    /\ Cardinality(non_pinned_stamps(local["mA"])) = cfg.max_backups
    /\ pinned_stamps(local["mA"]) # {}

\* C2: a rotation, called directly or at the end of create_backup, leaves every
\* pinned archive in place and unchanged, whatever its age, and leaves
\* min(N, max_backups) of the N non-pinned archives it finds.
C2_RotationSparesPinned ==
    [][\A m \in Machines :
        /\ RotateStep(m) =>
            /\ \A ts \in pinned_stamps(local[m]) :
                   /\ local'[m].zips[ts] = local[m].zips[ts]
                   /\ local'[m].metas[ts] = local[m].metas[ts]
            /\ pinned_stamps(local'[m]) = pinned_stamps(local[m])
            /\ Cardinality(non_pinned_stamps(local'[m])) =
                   Min2(Cardinality(non_pinned_stamps(local[m])), cfg.max_backups)
        /\ CreateReturns(m) =>
            \* the rotation finds the archive of this minute written, not pinned
            /\ \A ts \in pinned_stamps(local[m]) \ {now} :
                   /\ local'[m].zips[ts] = local[m].zips[ts]
                   /\ local'[m].metas[ts] = local[m].metas[ts]
            /\ pinned_stamps(local'[m]) = pinned_stamps(local[m]) \ {now}
            /\ Cardinality(non_pinned_stamps(local'[m])) =
                   Min2(Cardinality(non_pinned_stamps(local[m]) \cup {now}),
                        cfg.max_backups)
    ]_vars

\* a rotation has deleted something while a pinned archive older than every
\* remaining non-pinned one stays listed
C2_Witness ==
    /\ last.op \in {"rotate_backups", "create_backup"} /\ last.deleted > 0
    /\ \E p \in pinned_stamps(local["mA"]) :
          /\ non_pinned_stamps(local["mA"]) # {}
          /\ \A ts \in non_pinned_stamps(local["mA"]) : p < ts

\* C3: after N create_backup calls that returned, N <= max_backups, the list
\* holds exactly N archives, numbered N..1 from the newest to the oldest,
\* whatever the minutes of the calls.
C3_OneArchivePerCreate ==
    (created < MaxCreates /\ created <= cfg.max_backups) =>
        /\ Len(list_backups(local["mA"])) = created
        /\ \A i \in 1..Len(list_backups(local["mA"])) :
               list_backups(local["mA"])[i].version = created - i + 1

\* C4: detect returns None when a path is missing or the two hashes are
\* equal, a ConflictInfo exactly when both exist and the hashes differ, and
\* the hashes of a returned ConflictInfo differ.
C4_DetectIffHashesDiffer ==
    last.op = "detect" =>
        LET c == last.detected
            lh == IF is_dir(det_local) THEN dir_sha256(det_local) ELSE file_sha256(det_local)
            rh == IF is_dir(det_local) THEN dir_sha256(det_remote) ELSE file_sha256(det_remote)
        IN  /\ c.none <=> (~exists(det_local) \/ ~exists(det_remote) \/ lh = rh)
            /\ ~c.none => /\ c.local_hash = lh
                          /\ c.remote_hash = rh
                          /\ c.local_hash # c.remote_hash
                          /\ is_real_conflict(c)

\* detect has returned a ConflictInfo for two directories
C4_Witness ==
    /\ last.op = "detect" /\ ~last.detected.none
    /\ is_dir(det_local) /\ is_dir(det_remote)

\* the sync root holds a non-empty directory named like the newest local
\* archive of m, and its hash differs from the local one
RemoteDiffers(m) ==
    /\ cfg.sync_configured
    /\ list_backups(local[m]) # <<>>
    /\ LET latest == list_backups(local[m])[1]
           dest == remote[folder_name(latest)]
       IN  /\ dest.kind = "dir" /\ dest.files # <<>>
           /\ dir_sha256(local[m].zips[latest.backup_path]) # dir_sha256(dest)

\* C5: a push that finds a differing remote archive returns that conflict,
\* pushed = 0, and changes neither the sync root, the manifest nor the
\* local tree.
C5_ConflictChangesNothing ==
    [][\A m \in Machines :
        (PushStep(m) /\ RemoteDiffers(m)) =>
            /\ last'.pushed = 0
            /\ Len(last'.conflicts) = 1
            /\ last'.conflicts[1].remote_path = remote[list_backups(local[m])[1].backup_path]
            /\ last'.conflicts[1].local_path = local[m].zips[list_backups(local[m])[1].backup_path]
            /\ remote' = remote
            /\ remote_game_dir' = remote_game_dir
            /\ manifest' = manifest
            /\ local' = local
    ]_vars

\* a push has returned a conflict and the remote directory is still there
C5_Witness ==
    /\ last.op = "push" /\ last.conflicts # <<>> /\ last.pushed = 0
    /\ RemoteDiffers(last.machine)

\* the newest archives of the two machines exist and differ in content
NewestDiffer(m1, m2) ==
    /\ list_backups(local[m1]) # <<>>
    /\ list_backups(local[m2]) # <<>>
    /\ local[m1].zips[list_backups(local[m1])[1].backup_path].bytes #
       local[m2].zips[list_backups(local[m2])[1].backup_path].bytes

\* C6: when two machines hold content-different newest archives and push one
\* after the other, the second push returns a conflict, pushed = 0, and
\* leaves the sync root as the first push left it.
C6_SecondPushConflicts ==
    [][\A m1, m2 \in Machines :
        (/\ m1 # m2
         /\ cfg.sync_configured
         /\ last.op = "push" /\ last.machine = m1
         /\ NewestDiffer(m1, m2)
         /\ PushStep(m2)) =>
            /\ last'.conflicts # <<>>
            /\ last'.pushed = 0
            /\ remote' = remote
    ]_vars

C8_PushCopiesAndRecords ==
    [][\A m \in Machines :
        (/\ PushStep(m)
         /\ cfg.sync_configured
         /\ list_backups(local[m]) # <<>>
         /\ ~exists(remote[folder_name(list_backups(local[m])[1])])) =>
            LET latest == list_backups(local[m])[1]
                copy == remote'[folder_name(latest)]
            IN  /\ last'.pushed = 1
                /\ exists(copy)
                /\ dir_sha256(copy) = dir_sha256(local[m].zips[latest.backup_path])
                /\ manifest'.has_entry
                /\ manifest'.file_hash = dir_sha256(copy)
                /\ manifest'.last_sync_time = now
                /\ manifest'.source_machine = m
                /\ manifest'.relative_path = folder_name(latest)
                /\ manifest'.crc32 = read_backup_crc32(copy)
    ]_vars

\* C9: a create_backup that raises leaves the listed archives, their
\* payloads and their sidecars as they were.
C9_FailedCreateLeavesList ==
    [][\A m \in Machines :
        CreateRaises(m) =>
            /\ listed_stamps(local'[m]) = listed_stamps(local[m])
            /\ \A ts \in listed_stamps(local[m]) :
                   /\ local'[m].zips[ts] = local[m].zips[ts]
                   /\ local'[m].metas[ts] = local[m].metas[ts]
    ]_vars

\* C10: while an archive stays listed under its timestamp, its payload and
\* its backup_paths do not change in any call that returns, and no field of
\* its sidecar other than is_pinned and label changes.
C10_PayloadImmutable ==
    [][\A m \in Machines :
        ~last'.raised =>
            \A ts \in listed_stamps(local[m]) \cap listed_stamps(local'[m]) :
                /\ local'[m].zips[ts] = local[m].zips[ts]
                /\ local'[m].metas[ts] =
                       [local[m].metas[ts] EXCEPT
                            !.is_pinned = local'[m].metas[ts].is_pinned,
                            !.label = local'[m].metas[ts].label]
    ]_vars

\* C11: for every known root R and relative suffix S, resolving the portable
\* form of R/S on the same machine gives R/S back, whichever roots are
\* prefixes of one another.
C11_RoundTrip ==
    last.op = "resolve_path" => last.resolved = path_arg

\* C12: sync_all always completes and returns a summary: a failure while
\* pushing or pulling one game is recorded in the errors of the result, and
\* every other game with local archives is pushed and every other remote
\* game directory is pulled.
C12_SyncAllCompletes ==
    [][\A m \in Machines :
        (last' # last /\ last'.op = "sync_all" /\ last'.machine = m /\ is_configured(cfg)) =>
            /\ ~last'.raised
            /\ Len(last'.parts) =
                   Cardinality({i \in 1..2 :
                       list_backups(<<local[m], other.store>>[i]) # <<>>})
                   + Cardinality({i \in 1..2 : <<remote_game_dir', other'.game_dir>>[i]})
    ]_vars

\* C13: the result of sync_all holds the sums of the per-game pushed and
\* pulled counts and every conflict, error and version-mismatch warning of
\* the per-game results.
C13_SyncAllAggregates ==
    (last.op = "sync_all" /\ ~last.raised) =>
        /\ last.pushed = sum_of(last.parts, "pushed")
        /\ last.pulled = sum_of(last.parts, "pulled")
        /\ last.conflicts = extend_of(last.parts, "conflicts")
        /\ last.errors = extend_of(last.parts, "errors")
        /\ last.crc32_warnings = extend_of(last.parts, "crc32_warnings")

\* the artifact of the sidecar entry fails: its destination cannot be written
\* or the container holds no entry for it
artifact_fails(bytes, bp, blocked) ==
    \/ restore_target(bp) \in blocked
    \/ bp.is_dir /\ entries_under(bytes, bp.zip_path) = <<>>
    \/ ~bp.is_dir /\ entries_named(bytes, bp.zip_path) = <<>>

\* the place holds what the container has for the artifact, written at t
restored_as(bytes, bp, node, t) ==
    IF bp.is_dir
    THEN /\ is_dir(node)
         /\ node.files = extracted_dir(entries_under(bytes, bp.zip_path), t).files
    ELSE node = File(<<last_named(bytes, bp.zip_path)[4]>>, t)

\* C14: restore_backup goes through every artifact entry of the sidecar: each
\* artifact that fails adds one message to the returned list, nothing is
\* raised, and every other artifact is restored.
C14_RestoreIsolatesFailures ==
    [][\A m \in Machines :
        (/\ last' # last \/ live' # live
         /\ last'.op = "restore_backup" /\ last'.machine = m
         /\ local[m].zips[last'.backup_path].kind = "file") =>
            LET ts == last'.backup_path
                bytes == local[m].zips[ts].bytes
                bps == local[m].metas[ts].backup_paths
                failing == {i \in 1..Len(bps) : artifact_fails(bytes, bps[i], last'.blocked)}
            IN  /\ ~last'.raised
                /\ Len(last'.errors) = Cardinality(failing)
                /\ \A i \in (1..Len(bps)) \ failing :
                       restored_as(bytes, bps[i], live'[restore_target(bps[i])], now)
    ]_vars

\* the step is an apply_resolution call of machine m with the resolution
ResolutionStep(m, resolution) ==
    /\ last' # last
    /\ last'.op = "apply_resolution" /\ last'.machine = m
    /\ last'.resolution = resolution

\* what the sidecar of an archive says: the {ts}.json of a local archive, the
\* backup_info.json of an archive directory of the sync root
local_sidecar(meta) ==
    [present |-> meta.exists, crc32 |-> meta.crc32, source_machine |-> meta.source_machine]

remote_sidecar(node) ==
    [present |-> node.info.present, crc32 |-> node.info.crc32,
     source_machine |-> node.info.source_machine]

\* the hashes detect compares for the two paths
hashes_equal(lp, rp) == detect_hashes(lp, rp)[1] = detect_hashes(lp, rp)[2]

\* C15: use_local makes the remote container and sidecar identical to the
\* local ones and leaves the local pair unchanged; use_remote makes the local
\* pair identical to the remote one and leaves the remote pair unchanged;
\* afterwards the two sides hash alike.
C15_ResolutionCopiesPair ==
    [][\A m \in Machines :
        LET c == last'.detected
        IN  /\ ResolutionStep(m, "use_local") =>
                /\ local' = local
                /\ remote'[c.remote_name] = local[m].zips[c.local_name]
                /\ remote_sidecar(remote'[c.remote_name]) =
                       local_sidecar(local[m].metas[c.local_name])
                /\ hashes_equal(local'[m].zips[c.local_name], remote'[c.remote_name])
            /\ ResolutionStep(m, "use_remote") =>
                /\ remote' = remote
                /\ local'[m].zips[c.local_name] = remote[c.remote_name]
                /\ local_sidecar(local'[m].metas[c.local_name]) =
                       remote_sidecar(remote[c.remote_name])
                /\ hashes_equal(local'[m].zips[c.local_name], remote'[c.remote_name])
    ]_vars

\* C16: keep_both leaves the local archive and the remote archive unchanged
\* and adds to the local game directory a copy of the remote archive under
\* the local name with the suffix _conflict_{machine}; list_backups returns
\* the copy next to the original.
C16_KeepBothAddsCopy ==
    [][\A m \in Machines :
        ResolutionStep(m, "keep_both") =>
            LET c == last'.detected
            IN  /\ remote' = remote
                /\ local'[m].zips = local[m].zips
                /\ local'[m].metas = local[m].metas
                /\ \/ local'[m].alt_zips[c.local_name] = remote[c.remote_name]
                   \/ local'[m].alt_dirs[c.local_name] = remote[c.remote_name]
                /\ Len(list_backups(local'[m])) = Len(list_backups(local[m])) + 1
    ]_vars

\* the newest local archive and the newest remote archive hash alike
InSync(m) ==
    /\ list_backups(local[m]) # <<>>
    /\ remote_backups(remote) # {}
    /\ hashes_equal(local[m].zips[list_backups(local[m])[1].backup_path],
                    remote[latest_name(remote_backups(remote))])

\* C17: once a conflict that push or pull reported is resolved, the push that
\* follows and the pull after it return without a conflict, and the game is
\* then InSync.
C17_ResolvedThenInSync ==
    /\ last.phase = 2 => (~last.raised /\ last.conflicts = <<>>)
    /\ last.phase = 3 => (~last.raised /\ last.conflicts = <<>> /\ InSync(last.machine))
\* C18: an I/O failure inside a BackupManager operation is raised to the
\* caller or is in the errors or warnings the operation returns; none is
\* only logged.
C18_NoFailureOnlyLogged ==
    last.io_failures > 0 =>
        \/ last.raised
        \/ last.errors # <<>>
        \/ last.crc32_warnings # <<>>

\* the step is a push, pull or sync_all call of machine m
SyncStep(m, op) == last' # last /\ last'.op = op /\ last'.machine = m

\* no archive, directory or manifest entry is created or changed
NoFileChanged == UNCHANGED <<local, remote, remote_game_dir, manifest, other>>

\* C19: with no existing sync folder configured, push, pull and sync_all
\* return, without raising, pushed = pulled = 0, no conflicts and a
\* configuration error, and change no file; push with no local archive and
\* pull with no remote archive return an empty result and change nothing.
C19_NothingToSync ==
    [][\A m \in Machines :
        /\ \A op \in {"push", "pull", "sync_all"} :
              SyncStep(m, op) /\ ~(cfg.sync_folder_set /\ cfg.sync_configured) =>
                  /\ ~last'.raised
                  /\ last'.pushed = 0 /\ last'.pulled = 0 /\ last'.conflicts = <<>>
                  /\ \E i \in 1..Len(last'.errors) :
                        last'.errors[i] = "Sync folder not configured"
                  /\ NoFileChanged
        /\ SyncStep(m, "push") /\ list_backups(local[m]) = <<>> =>
              /\ ~last'.raised
              /\ last'.pushed = 0 /\ last'.pulled = 0 /\ last'.conflicts = <<>>
              /\ NoFileChanged
        /\ SyncStep(m, "pull") /\ remote_backups(remote) = {} =>
              /\ ~last'.raised
              /\ last'.pushed = 0 /\ last'.pulled = 0 /\ last'.conflicts = <<>>
              /\ NoFileChanged
    ]_vars

\* the step is an auto_resolve call
AutoStep == last' # last /\ last'.op = "auto_resolve"

\* C20: auto_resolve returns use_local exactly when the local modification
\* time of the conflict is strictly later than the remote one, use_remote
\* exactly when the remote one is strictly later, skip when the two are
\* equal, never keep_both, and it changes no archive.
C20_AutoResolveByMtime ==
    [][AutoStep =>
        LET c == last.detected
        IN  /\ last'.resolution = "use_local" <=> c.local_mtime > c.remote_mtime
            /\ last'.resolution = "use_remote" <=> c.remote_mtime > c.local_mtime
            /\ c.local_mtime = c.remote_mtime => last'.resolution = "skip"
            /\ last'.resolution # "keep_both"
            /\ UNCHANGED <<det_local, det_remote, local, remote, remote_game_dir, manifest>>
    ]_vars

\* auto_resolve was called on a conflict whose two sides differ in content
\* and were modified at the same time
C20_Witness ==
    /\ last.op = "auto_resolve"
    /\ ~last.detected.none
    /\ is_real_conflict(last.detected)
    /\ last.detected.local_mtime = last.detected.remote_mtime
    /\ last.resolution = "skip"

\* C21: pull takes the archive of the sync root whose name sorts last; when
\* the local tree has no archive of that name pull copies it in and reports
\* pulled = 1 and no conflict, whatever other archives the local tree holds;
\* when the local archive of that name hashes like it, pull changes nothing.
C21_PullLatestRemote ==
    [][\A m \in Machines :
        SyncStep(m, "pull") /\ is_configured(cfg) /\ remote_game_dir
                            /\ remote_backups(remote) # {} =>
            LET rname == latest_name(remote_backups(remote))
            IN  /\ (~exists(local[m].zips[rname]) /\ ~exists(local[m].dirs[rname])) =>
                    /\ last'.pulled = 1
                    /\ last'.conflicts = <<>>
                    /\ local'[m].dirs[rname] = remote[rname]
                /\ (exists(local[m].zips[rname]) /\
                    dir_sha256(local[m].zips[rname]) = dir_sha256(remote[rname])) =>
                    /\ last'.pulled = 0
                    /\ last'.conflicts = <<>>
                    /\ local' = local
    ]_vars

\* the version list_backups gives the archive ts
version_of(store, ts) ==
    LET recs == list_backups(store)
    IN  recs[CHOOSE i \in 1..Len(recs) : recs[i].backup_path = ts].version

\* the containers list_backups has to return: those with a readable sidecar
containers_with_sidecar(store) ==
    {ts \in Stamps : /\ exists(store.zips[ts])
                     /\ store.metas[ts].exists /\ store.metas[ts].readable}

\* C22: after every create, pin, unpin, delete and rotate, list_backups returns
\* the n archives that have a readable sidecar, newest first, with the
\* versions n, n-1, ..., 1; a container without a readable sidecar is left out
\* and hides no other; deleting an archive lowers the version of every newer
\* archive by one and leaves the versions of the older ones.
C22_VersionsArePositional ==
    [][\A m \in Machines :
        LET recs == list_backups(local'[m])
            n == Len(recs)
            gone == listed_stamps(local[m]) \ listed_stamps(local'[m])
        IN  /\ \A i \in 1..n : recs[i].version = n - i + 1
            /\ \A i \in 1..n : i < n => recs[i].backup_path > recs[i + 1].backup_path
            /\ listed_stamps(local'[m]) = containers_with_sidecar(local'[m])
            /\ (last' # last /\ last'.op = "delete_backup" /\ last'.machine = m) =>
                  \A ts \in listed_stamps(local'[m]), d \in gone :
                      version_of(local'[m], ts) =
                          version_of(local[m], ts) - (IF ts > d THEN 1 ELSE 0)
    ]_vars

\* an older archive was deleted, a newer one is listed as version 1, and a
\* container without a readable sidecar is in the game directory
C22_Witness ==
    /\ last.op = "delete_backup" /\ ~last.raised
    /\ \E ts \in listed_stamps(local["mA"]) :
          /\ version_of(local["mA"], ts) = 1
          /\ \E d \in Stamps : d < ts /\ ~exists(local["mA"].zips[d])
    /\ \E ts \in Stamps :
          /\ exists(local["mA"].zips[ts])
          /\ ts \notin listed_stamps(local["mA"])

\* C23: the version on the record create_backup returns is 1 + the number of
\* archives the game had before the call, and it is the version list_backups
\* gives that archive right after the call when rotation deleted nothing.
C23_ReturnedVersion ==
    [][\A m \in Machines :
        CreateReturns(m) =>
            /\ last'.version = Len(list_backups(local[m])) + 1
            /\ last'.deleted = 0 /\ last'.io_failures = 0 =>
                  last'.version = version_of(local'[m], last'.backup_path)
    ]_vars

\* machine m completes the copy of a push that raced with the push of the
\* same archive name by machine o, which has completed its copy already
LastWriterStep(m, o) ==
    /\ o # m
    /\ pushing[m].pc = "checked" /\ pushing'[m].pc = "idle"
    /\ pushing[m].raced
    /\ pushing[o].pc = "idle" /\ pushing[o].raced
    /\ folder_name(pushing[o].latest) = folder_name(pushing[m].latest)

\* C24: when two machines push content-different archives of one timestamp
\* name and both pass the check before either copies, neither reports a
\* conflict, both report pushed = 1, and the sync root and the manifest end
\* with the archive of the machine that copied last.
C24_LastWriterWins ==
    [][\A m \in Machines, o \in Machines :
        LET name == folder_name(pushing[m].latest)
        IN  (/\ LastWriterStep(m, o)
             /\ \/ dir_sha256(local[m].zips[name]) # dir_sha256(local[o].zips[name])
                \/ file_sha256(local[m].zips[name]) # file_sha256(local[o].zips[name])) =>
                /\ last'.conflicts = <<>> /\ pushing[o].conflicts = 0
                /\ last'.pushed = 1 /\ pushing[o].pushed = 1
                /\ remote'[name] = local[m].zips[name]
                /\ manifest'.source_machine = m
    ]_vars

\* C25: a path that cannot be read hashes to the sentinel, and a pair of
\* existing paths of which one or both hash to the sentinel is never taken
\* for identical: detect returns a ConflictInfo for it.
C25_SentinelNeverIdentical ==
    (/\ last.op = "detect"
     /\ exists(det_local) /\ exists(det_remote)
     /\ \/ detect_hashes(det_local, det_remote)[1] = HashFailed
        \/ detect_hashes(det_local, det_remote)[2] = HashFailed) =>
        ~last.detected.none

\* the place holds the content the save file had when it was backed up
same_content(sf, node) ==
    IF sf.kind = "dir"
    THEN /\ node.kind = "dir"
         /\ [i \in 1..Len(node.files) |-> node.files[i].bytes] =
                [c \in 1..Len(sf.children) |-> <<sf.children[c]>>]
    ELSE node.kind = "file" /\ node.bytes = <<sf.data>>

\* the step is a restore_backup of the archive the create_backup before it
\* returned, on the same machine
RestoreOfCreated(m) ==
    /\ last.op = "create_backup" /\ last.machine = m /\ ~last.raised
    /\ last'.op = "restore_backup" /\ last'.machine = m
    /\ last'.backup_path = last.backup_path

\* C26: create_backup of save files with pairwise distinct source paths,
\* then restore_backup of the returned archive, puts back at the source path
\* of every save file the content it had at backup time, whatever the save
\* kinds and the file or directory names.
C26_BackupRestoreRoundTrip ==
    [][\A m \in Machines :
        (/\ RestoreOfCreated(m)
         /\ \A i, j \in 1..Len(last.saved) :
               i # j => last.saved[i].path # last.saved[j].path) =>
            /\ ~last'.raised
            /\ last'.errors = <<>>
            /\ \A i \in 1..Len(last.saved) :
                  same_content(last.saved[i], live'[last.saved[i].path])
    ]_vars

\* C27: with max_backups >= 1, the archive a create_backup returned is in
\* list_backups when the call returns: its own rotation does not delete it,
\* whatever the timestamp names and pin flags of the archives already there.
C27_CreatedArchiveIsListed ==
    \A m \in Machines :
        (/\ cfg.max_backups >= 1
         /\ last.op = "create_backup" /\ last.machine = m /\ ~last.raised) =>
            last.backup_path \in listed_stamps(local[m])

\* the games as sync_all finds them on machine m
games_of(m) == <<Game(local[m], remote, remote_game_dir, manifest), other>>

\* a sync_all that returned r from the games found nothing to do
nothing_synced(games, r) ==
    /\ ~r.raised
    /\ r.pushed = 0
    /\ r.pulled = 0
    /\ r.games = games

\* C28: after a sync_all that returned with no errors, a sync_all repeated
\* at once reports pushed = 0 and pulled = 0 and changes no file: what the
\* first run pulled is not pulled again.
C28_SyncAllFixedPoint ==
    \A m \in Machines, order \in Orders :
        (/\ last.op = "sync_all" /\ last.machine = m
         /\ ~last.raised /\ last.errors = <<>>) =>
            nothing_synced(games_of(m),
                           sync_all(games_of(m), m, is_configured(cfg), now, order, order))

\* the machine is in no push call and has pushed its game
has_pushed(m) == pushing[m].pc = "idle" /\ pushing[m].pushed = 1

\* C29: when two machines push different games at the same time, the manifest
\* of the sync root holds the entries of both games once both pushes have
\* returned pushed = 1: the update of one never discards the entry of the
\* other.
C29_ManifestKeepsBothEntries ==
    (has_pushed("mA") /\ has_pushed("mB")) =>
        /\ manifest.has_entry /\ manifest.source_machine = "mA"
        /\ other.manifest.has_entry /\ other.manifest.source_machine = "mB"

\* the directory holds the files of the entries, with their content, and no
\* other file
holds_exactly(node, extracted) ==
    /\ is_dir(node)
    /\ Len(node.files) = Len(extracted.files)
    /\ \A i \in 1..Len(extracted.files) : node.files[i].bytes = extracted.files[i].bytes

\* C30: after restore_backup returned no errors, the destination of every
\* directory artifact holds exactly the archived state: each archived file
\* with its archived content, and no file that is not in the archive.
C30_RestoredDirectoryIsExact ==
    [][\A m \in Machines :
        (/\ last.op # "restore_backup" /\ last'.op = "restore_backup"
         /\ last'.machine = m
         /\ ~last'.raised /\ last'.errors = <<>>) =>
            LET ts == last'.backup_path
                bytes == local[m].zips[ts].bytes
                bps == local[m].metas[ts].backup_paths
            IN  \A i \in 1..Len(bps) :
                    bps[i].is_dir =>
                        holds_exactly(live'[restore_target(bps[i])],
                                      extracted_dir(entries_under(bytes, bps[i].zip_path), now))
    ]_vars

====
